---- MODULE Spec2Model ----
(***************************************************************************)
(* A model of the AKS Market dashboard (src/aks_market.py) and of its      *)
(* static data fetcher (src/static_data_fetcher.py).                       *)
(*                                                                         *)
(* The program is modelled as state machines that share no state:          *)
(*   - SpecRetry : one call of retry_with_backoff;                         *)
(*   - SpecBatch : one call of fetch_stocks_data_for_industry, with the    *)
(*                 worker threads of each batch interleaved;               *)
(*   - SpecSort  : the header clicks (handle_sort) and the table render    *)
(*                 (generate_table) over a loaded row list;                *)
(*   - SpecFund  : get_fundamentals applied to a provider quote record;    *)
(*   - SpecVol   : one call of get_volume_stats;                           *)
(*   - SpecFloat : safe_float applied to one value;                        *)
(*   - SpecCache : the memoized accessors of one symbol over time;         *)
(*   - SpecUi    : the page, its events and its first three callbacks;     *)
(*   - SpecClick : the sort stores over a sequence of header clicks;       *)
(*   - SpecHist  : one call of get_historical_comparison;                  *)
(*   - SpecIndustry : one call of fetch_industry_for_symbol;               *)
(*   - SpecEnrich   : one run of load_and_enrich_tickers.                  *)
(* Each specification holds the variables of the other machines fixed.     *)
(*                                                                         *)
(* Conventions.  Python's None is the string "None".  A Python string is a *)
(* tuple of one-character strings.  A float is an integer number of        *)
(* hundredths (fixed point, two decimals), so 12.50 is 1250; delays of     *)
(* retry_with_backoff are integers in the unit of base_delay.              *)
(***************************************************************************)
EXTENDS Integers, Sequences, FiniteSets, TLC

VARIABLES
    \* ---- retry_with_backoff
    r_max,        \* max_retries
    r_base,       \* base_delay
    r_attempt,    \* the loop variable attempt
    r_pc,         \* "loop" | "done"
    r_func,       \* the callable: the outcome of its k-th invocation
    r_calls,      \* how many times func(symbol) was invoked
    r_sleeps,     \* the delays passed to time.sleep that returned, in order
    r_end,        \* "none" | "returned" | "raised"
    r_value,      \* the value returned (None when absent)
    \* ---- fetch_stocks_data_for_industry
    b_symbols,    \* the list symbols (line 313)
    b_batch_size, \* batch_size
    b_workers,    \* workers
    b_i,          \* the loop variable i (line 314)
    b_pc,         \* "loop" | "submitted" | "collecting" | "done"
    b_batch,      \* the current batch (line 315)
    b_queue,      \* the pool's work queue: submitted tasks no thread has taken
    b_running,    \* the symbols whose _fetch_one is executing
    b_snapshot,   \* as_completed: futures found finished when it was called
    b_waiter,     \* as_completed: futures finished since, in finishing order
    b_all_data,   \* all_data
    b_stage,      \* per symbol: how the stages of its _fetch_one ended
    b_submits,    \* per symbol: how many times it was submitted
    b_batches,    \* the batches started, in order
    b_finished,   \* the symbols whose _fetch_one has ended, in finishing order
    b_early,      \* the symbols whose _fetch_one ended before as_completed was called
    b_sleeps,     \* the number of inter-batch sleeps (line 334)
    \* ---- handle_sort and generate_table
    s_stocks,     \* stocks_data_store[selected_industry]: the loaded rows
    s_column,     \* the store sort-column
    s_direction,  \* the store sort-direction
    s_pending,    \* a store changed and generate_table has not run yet
    s_table,      \* the rows of the rendered table, top to bottom
    s_error,      \* the last generate_table call ended in an uncaught exception
    \* ---- get_fundamentals
    f_data,       \* what get_nse_data(symbol) returns (line 116)
    f_pc,         \* "start" | "done"
    f_isNone,     \* get_fundamentals returned None
    f_fund,       \* the record get_fundamentals returned (lines 147-156)
    \* ---- get_volume_stats
    v_ticker,     \* "ok" | "raise": how yf.Ticker and the code outside the try blocks end
    v_h30,        \* what tk.history(period="30d", interval="1d") returns
    v_h1m,        \* what tk.history(period="1d", interval="1m") returns
    v_h1d,        \* what tk.history(period="1d", interval="1d") returns
    v_pc,         \* "start" | "today" | "daily" | "change" | "done"
    v_avg,        \* avg_vol
    v_today,      \* todays_vol
    v_calls,      \* the history calls made, in order
    v_stats,      \* the record get_volume_stats returned
    \* ---- safe_float
    sf_v,         \* the argument v
    sf_pc,        \* "start" | "done"
    sf_result,    \* the value returned
    \* ---- the memoized accessors of one symbol (diskcache)
    c_now,        \* the time, in units of 900 seconds
    c_nse,        \* the cache entry of get_nse_data(symbol)
    c_fund,       \* the cache entry of get_fundamentals(symbol)
    c_hist,       \* per days: the cache entry of get_historical_comparison(symbol, days)
    c_log,        \* the last call: what it returned and how
    \* ---- the page: initialize_data, toggle_refresh_and_interval, fetch_industry_data
    u_file,       \* nifty100_with_industries.csv: "present" | "missing" | "unreadable"
    u_memo,       \* the cache entry of load_symbols_with_industries()
    u_load,       \* how initialize_data got the mapping; "pending" before it ran
    u_map,        \* the store symbol-industry-map
    u_options,    \* the options of the dropdown industry-filter
    u_industry,   \* the value of industry-filter
    u_days,       \* the value of days-input
    u_btn_disabled,       \* refresh-btn.disabled
    u_interval_disabled,  \* auto-refresh-interval.disabled
    u_toggle_pending,     \* toggle_refresh_and_interval is due
    u_fetch_pending,      \* fetch_industry_data is due
    u_running,    \* the fetch_industry_data call in progress and its arguments
    u_store,      \* the store stocks-data-store
    u_current_days,       \* the store current-days
    u_started,    \* fetch_stocks_data_for_industry was called
    u_events,     \* how many user and timer events have happened
    \* ---- handle_sort on its own: the stores over a sequence of header clicks
    h_column,     \* the store sort-column
    h_direction,  \* the store sort-direction
    h_trail,      \* the last three clicks: the column clicked and the stores after it
    \* ---- get_historical_comparison, one call
    g_closes,     \* hist['Close']: the daily closes, oldest first, in hundredths
    g_raises,     \* tk.history raises
    g_days,       \* days
    g_pc,         \* "call" | "done"
    g_result,     \* the triple returned: old_price, price_change, price_change_pct
    \* ---- fetch_industry_for_symbol, one call (static_data_fetcher.py)
    i_max,        \* max_retries
    i_provider,   \* how the k-th call of nse_eq(symbol) ends
    i_pc,         \* "call" | "done"
    i_result,     \* what the call returned, with its provider calls and its sleeps
    \* ---- load_and_enrich_tickers (static_data_fetcher.py)
    e_input,      \* input_csv: "ok" | "missing" | "nocolumn"
    e_tickers,    \* the ticker column of input_csv
    e_provider,   \* per symbol: how the successive calls of nse_eq(symbol) end
    e_disk,       \* whether to_csv succeeds: "ok" | "fails"
    e_pc,         \* "load" | "loop" | "summary" | "save" | "saved" | "returned" | "raised"
    e_symbols,    \* symbols (line 82)
    e_i,          \* how many symbols the loop has done
    e_results,    \* results
    e_calls,      \* per symbol: the calls of nse_eq made for it
    e_cooldowns,  \* the number of sleeps of line 104
    e_saved       \* the rows of output_csv written by this run

vars_retry == <<r_max, r_base, r_func, r_attempt, r_pc, r_calls, r_sleeps, r_end, r_value>>

vars_batch == <<b_symbols, b_batch_size, b_workers, b_i, b_pc, b_batch, b_queue,
                b_running, b_snapshot, b_waiter, b_all_data, b_stage, b_submits,
                b_batches, b_finished, b_early, b_sleeps>>

vars_sort == <<s_stocks, s_column, s_direction, s_pending, s_table, s_error>>

vars_fund == <<f_data, f_pc, f_isNone, f_fund>>

vars_vol == <<v_ticker, v_h30, v_h1m, v_h1d, v_pc, v_avg, v_today, v_calls, v_stats>>

vars_float == <<sf_v, sf_pc, sf_result>>

vars_cache == <<c_now, c_nse, c_fund, c_hist, c_log>>

vars_ui == <<u_file, u_memo, u_load, u_map, u_options, u_industry, u_days,
             u_btn_disabled, u_interval_disabled, u_toggle_pending,
             u_fetch_pending, u_running, u_store, u_current_days, u_started,
             u_events>>

vars_click == <<h_column, h_direction, h_trail>>

vars_hist == <<g_closes, g_raises, g_days, g_pc, g_result>>

vars_industry == <<i_max, i_provider, i_pc, i_result>>

vars_enrich == <<e_input, e_tickers, e_provider, e_disk, e_pc, e_symbols, e_i,
                 e_results, e_calls, e_cooldowns, e_saved>>

vars == <<vars_retry, vars_batch, vars_sort, vars_fund, vars_vol, vars_float,
          vars_cache, vars_ui, vars_click, vars_hist, vars_industry,
          vars_enrich>>

others_retry == <<vars_batch, vars_sort, vars_fund, vars_vol, vars_float,
                  vars_cache, vars_ui, vars_click, vars_hist, vars_industry,
                  vars_enrich>>
others_batch == <<vars_retry, vars_sort, vars_fund, vars_vol, vars_float,
                  vars_cache, vars_ui, vars_click, vars_hist, vars_industry,
                  vars_enrich>>
others_sort == <<vars_retry, vars_batch, vars_fund, vars_vol, vars_float,
                 vars_cache, vars_ui, vars_click, vars_hist, vars_industry,
                 vars_enrich>>
others_fund == <<vars_retry, vars_batch, vars_sort, vars_vol, vars_float,
                 vars_cache, vars_ui, vars_click, vars_hist, vars_industry,
                 vars_enrich>>
others_vol == <<vars_retry, vars_batch, vars_sort, vars_fund, vars_float,
                vars_cache, vars_ui, vars_click, vars_hist, vars_industry,
                vars_enrich>>
others_float == <<vars_retry, vars_batch, vars_sort, vars_fund, vars_vol,
                  vars_cache, vars_ui, vars_click, vars_hist, vars_industry,
                  vars_enrich>>
others_cache == <<vars_retry, vars_batch, vars_sort, vars_fund, vars_vol,
                  vars_float, vars_ui, vars_click, vars_hist, vars_industry,
                  vars_enrich>>
others_ui == <<vars_retry, vars_batch, vars_sort, vars_fund, vars_vol,
               vars_float, vars_cache, vars_click, vars_hist, vars_industry,
               vars_enrich>>
others_click == <<vars_retry, vars_batch, vars_sort, vars_fund, vars_vol,
                  vars_float, vars_cache, vars_ui, vars_hist, vars_industry,
                  vars_enrich>>
others_hist == <<vars_retry, vars_batch, vars_sort, vars_fund, vars_vol,
                 vars_float, vars_cache, vars_ui, vars_click, vars_industry,
                 vars_enrich>>
others_industry == <<vars_retry, vars_batch, vars_sort, vars_fund, vars_vol,
                     vars_float, vars_cache, vars_ui, vars_click, vars_hist,
                     vars_enrich>>
others_enrich == <<vars_retry, vars_batch, vars_sort, vars_fund, vars_vol,
                   vars_float, vars_cache, vars_ui, vars_click, vars_hist,
                   vars_industry>>

None == "None"

\* ------------------------------------------------------------------------
\* Bounds of the model
\* ------------------------------------------------------------------------
MaxRetries == 3
MaxBaseDelay == 1
MaxSymbols == 3
MaxBatchSize == 2
MaxWorkers == 2
MaxRows == 4
MaxValue == 2
MaxTime == 4
MaxEvents == 3
MaxCloses == 4
MaxDays == 3
MaxFetchRetries == 4
MaxTickers == 3

\* ------------------------------------------------------------------------
\* Strings
\* ------------------------------------------------------------------------
UpperChars == <<"A","B","C","D","E","F","G","H","I","J","K","L","M",
                "N","O","P","Q","R","S","T","U","V","W","X","Y","Z">>
LowerChars == <<"a","b","c","d","e","f","g","h","i","j","k","l","m",
                "n","o","p","q","r","s","t","u","v","w","x","y","z">>

\* str.lower() on one character
LowerChar(c) ==
    IF \E i \in 1..Len(UpperChars) : UpperChars[i] = c
    THEN LowerChars[CHOOSE i \in 1..Len(UpperChars) : UpperChars[i] = c]
    ELSE c

\* str.lower()
Lower(s) == [i \in 1..Len(s) |-> LowerChar(s[i])]

\* Python's "sub in s"
Contains(s, sub) ==
    \E k \in 0..(Len(s) - Len(sub)) :
        \A j \in 1..Len(sub) : s[k + j] = sub[j]

\* ------------------------------------------------------------------------
\* retry_with_backoff (src/aks_market.py, lines 41-61)
\* ------------------------------------------------------------------------
IndExpectingValue == <<"e","x","p","e","c","t","i","n","g"," ","v","a","l","u","e">>
IndRate == <<"r","a","t","e">>
Ind429 == <<"4","2","9">>
IndDelisted == <<"d","e","l","i","s","t","e","d">>

\* the indicators of line 49
RateLimitIndicators == {IndExpectingValue, IndRate, Ind429}

\* Mutant: a condition that is always true, as `"rate" or "429" in err_str` is.
IsRateLimitErrorAlways(msg) == Len(msg) >= 0

\* Mutant: the message is not lower-cased before the match.
IsRateLimitErrorCaseSensitive(msg) ==
    \E ind \in {IndExpectingValue, IndRate, Ind429} : Contains(msg, ind)

\* line 47 and the condition of line 49
IsRateLimitError(msg) ==
    LET err_str == Lower(msg)
    IN  \E ind \in RateLimitIndicators : Contains(err_str, ind)

\* 2 ** attempt
RECURSIVE Pow2(_)
Pow2(n) == IF n <= 0 THEN 1 ELSE 2 * Pow2(n - 1)

\* Mutant: the delay does not grow with the attempt.
BackoffDelayFlat(base_delay, attempt) == base_delay

\* line 51
BackoffDelay(base_delay, attempt) == base_delay * Pow2(attempt)

\* time.sleep(delay) raises ValueError for a negative delay
SleepRaises(delay) == delay < 0

\* Mutant: the final attempt is followed by a sleep as well.
AttemptsRemainAlways(attempt, max_retries) == attempt < max_retries

\* line 50
AttemptsRemain(attempt, max_retries) == attempt < max_retries - 1

\* The messages str(e) of the exceptions func may raise.
MsgRateLimited == <<"R","a","t","e"," ","l","i","m","i","t","e","d">>
MsgHttp429 == <<"H","T","T","P"," ","4","2","9">>
MsgExpecting == <<"E","x","p","e","c","t","i","n","g"," ","v","a","l","u","e",":"," ","l","i","n","e"," ","1">>
MsgDelisted == <<"A","B","C",":"," ","D","e","l","i","s","t","e","d">>
MsgCorporate == <<"c","o","r","p","o","r","a","t","e">>
MsgTimeout == <<"t","i","m","e","d"," ","o","u","t">>
Messages == {MsgRateLimited, MsgHttp429, MsgExpecting, MsgDelisted,
             MsgCorporate, MsgTimeout}

\* What func(symbol) returns when it does not raise.
FuncValues == {"quote", None}

OkOutcome(v) == [kind |-> "ok", val |-> v, msg |-> <<>>]
ExcOutcome(m) == [kind |-> "exc", val |-> None, msg |-> m]
FuncOutcomes == {OkOutcome(v) : v \in FuncValues} \cup {ExcOutcome(m) : m \in Messages}

BaseDelays == (0 - 1)..MaxBaseDelay

\* A callable is given by the outcomes of its successive invocations; no call
\* of retry_with_backoff invokes it more than max_retries times.
Callables == [1..MaxRetries -> FuncOutcomes]

InitRetry ==
    /\ r_max \in 0..MaxRetries
    /\ r_base \in BaseDelays
    /\ r_func \in Callables
    /\ r_attempt = 0
    /\ r_pc = "loop"
    /\ r_calls = 0
    /\ r_sleeps = <<>>
    /\ r_end = "none"
    /\ r_value = None

IdleRetry ==
    /\ r_max = 0
    /\ r_base = 0
    /\ r_func = <<>>
    /\ r_attempt = 0
    /\ r_pc = "idle"
    /\ r_calls = 0
    /\ r_sleeps = <<>>
    /\ r_end = "none"
    /\ r_value = None

\* Mutant: the last error is raised again once the attempts are used up.
OnMaxRetriesReraise == [end |-> "raised", value |-> None]

\* lines 55-56: the attempts are used up
OnMaxRetries == [end |-> "returned", value |-> None]

\* lines 59-60: an error that is not retried
OnOtherError == [end |-> "returned", value |-> None]

RetryFinish(end, value) ==
    /\ r_pc' = "done"
    /\ r_end' = end
    /\ r_value' = value

\* One iteration of the for loop (lines 43-60): func(symbol) is invoked and ends
\* as the callable's next outcome says.
RetryAttempt ==
    /\ r_pc = "loop"
    /\ r_attempt < r_max
    /\ r_calls' = r_calls + 1
    /\ LET o == r_func[r_calls + 1]
       IN  IF o.kind = "ok"
           THEN \* line 45
                /\ RetryFinish("returned", o.val)
                /\ UNCHANGED <<r_attempt, r_sleeps>>
           ELSE IF IsRateLimitError(o.msg)
           THEN IF AttemptsRemain(r_attempt, r_max)
                THEN LET delay == BackoffDelay(r_base, r_attempt)
                     IN  IF SleepRaises(delay)
                         THEN \* the ValueError of line 53 leaves the handler
                              /\ RetryFinish("raised", None)
                              /\ UNCHANGED <<r_attempt, r_sleeps>>
                         ELSE /\ r_sleeps' = Append(r_sleeps, delay)
                              /\ r_attempt' = r_attempt + 1
                              /\ UNCHANGED <<r_pc, r_end, r_value>>
                ELSE /\ RetryFinish(OnMaxRetries.end, OnMaxRetries.value)
                     /\ UNCHANGED <<r_attempt, r_sleeps>>
           ELSE /\ RetryFinish(OnOtherError.end, OnOtherError.value)
                /\ UNCHANGED <<r_attempt, r_sleeps>>
    /\ UNCHANGED <<r_max, r_base, r_func>>
    /\ UNCHANGED others_retry

\* The loop body never ran, or the loop ran out (line 61).
RetryExhausted ==
    /\ r_pc = "loop"
    /\ r_attempt >= r_max
    /\ RetryFinish("returned", None)
    /\ UNCHANGED <<r_max, r_base, r_func, r_attempt, r_calls, r_sleeps>>
    /\ UNCHANGED others_retry

NextRetry ==
    \/ RetryAttempt
    \/ RetryExhausted


\* ------------------------------------------------------------------------
\* fetch_stocks_data_for_industry (src/aks_market.py, lines 256-336)
\* ------------------------------------------------------------------------
Min(a, b) == IF a <= b THEN a ELSE b

\* Mutant: the slice takes one symbol too many.
SliceOneMore(symbols, i, batch_size) ==
    SubSeq(symbols, i + 1, IF i + batch_size + 1 <= Len(symbols)
                           THEN i + batch_size + 1 ELSE Len(symbols))

\* symbols[i : i + batch_size], with Python's 0-based i
Slice(symbols, i, batch_size) ==
    SubSeq(symbols, i + 1, Min(i + batch_size, Len(symbols)))

\* The elements of a sequence
Range(seq) == {seq[k] : k \in 1..Len(seq)}

\* How the three accessor calls of _fetch_one (lines 262-264) end for one symbol:
\* get_fundamentals returns a record ("ok") or None ("absent"); get_volume_stats
\* returns its statistics ("ok") or the all-None record of lines 243-247
\* ("absent"); get_historical_comparison returns its triple ("ok") or the
\* (None, None, None) of lines 176 and 196 ("absent"); exc says that an
\* exception is raised somewhere in lines 262-308.
StageOutcome(fund, vol, hist, exc) == [fund |-> fund, vol |-> vol, hist |-> hist, exc |-> exc]
StageOutcomes ==
    { StageOutcome("ok", "ok", "ok", FALSE),
      StageOutcome("absent", "ok", "ok", FALSE),
      StageOutcome("ok", "absent", "ok", FALSE),
      StageOutcome("ok", "ok", "absent", FALSE),
      StageOutcome("ok", "ok", "ok", TRUE) }

NotFetched == [fund |-> "none", vol |-> "none", hist |-> "none", exc |-> FALSE]

\* lines 266-267: a fundamentals record is truthy, None is not
FundMissing(o) == o.fund # "ok"

\* The None that _fetch_one returns for no row (no symbol has the id 0)
NoRow == [SYMBOL |-> 0, TODAY_VOLUME |-> None, HISTORICAL_PRICE |-> None]

\* Mutant: a missing fundamentals record is replaced by an empty one.
FetchOneNoFundCheck(symbol, o) ==
    IF o.exc THEN NoRow
    ELSE [SYMBOL |-> symbol,
          TODAY_VOLUME |-> IF o.vol = "ok" THEN "value" ELSE None,
          HISTORICAL_PRICE |-> IF o.hist = "ok" THEN "value" ELSE None]

\* _fetch_one (lines 260-311): the row, or None
FetchOne(symbol, o) ==
    IF o.exc THEN NoRow
    ELSE IF FundMissing(o) THEN NoRow
    ELSE [SYMBOL |-> symbol,
          TODAY_VOLUME |-> IF o.vol = "ok" THEN "value" ELSE None,
          HISTORICAL_PRICE |-> IF o.hist = "ok" THEN "value" ELSE None]

\* line 329: a row is a non-empty dict
Truthy(res) == res # NoRow

\* Mutant: the pool has a thread for every symbol of the batch.
PoolSizeOfBatch(workers, batch) == Len(batch)

\* line 320: max_workers of the batch's pool
PoolSize(workers, batch) == Min(workers, Len(batch))

\* Mutant: a sleep follows a last batch that is full.
MoreBatchesOrFull(i, batch_size, symbols) == i + batch_size <= Len(symbols)

\* line 332
MoreBatches(i, batch_size, symbols) == i + batch_size < Len(symbols)

\* line 314: the step of range(0, len(symbols), batch_size)
NextIndex(i, batch_size) == i + batch_size

SymbolIds == 1..MaxSymbols

InitBatch ==
    /\ b_symbols \in {[k \in 1..n |-> k] : n \in 0..MaxSymbols}
    /\ b_batch_size \in 1..MaxBatchSize
    /\ b_workers \in 1..MaxWorkers
    /\ b_i = 0
    /\ b_pc = "loop"
    /\ b_batch = <<>>
    /\ b_queue = <<>>
    /\ b_running = {}
    /\ b_snapshot = {}
    /\ b_waiter = <<>>
    /\ b_all_data = <<>>
    /\ b_stage = [s \in SymbolIds |-> NotFetched]
    /\ b_submits = [s \in SymbolIds |-> 0]
    /\ b_batches = <<>>
    /\ b_finished = <<>>
    /\ b_early = {}
    /\ b_sleeps = 0

IdleBatch ==
    /\ b_symbols = <<>>
    /\ b_batch_size = 1
    /\ b_workers = 1
    /\ b_i = 0
    /\ b_pc = "idle"
    /\ b_batch = <<>>
    /\ b_queue = <<>>
    /\ b_running = {}
    /\ b_snapshot = {}
    /\ b_waiter = <<>>
    /\ b_all_data = <<>>
    /\ b_stage = [s \in SymbolIds |-> NotFetched]
    /\ b_submits = [s \in SymbolIds |-> 0]
    /\ b_batches = <<>>
    /\ b_finished = <<>>
    /\ b_early = {}
    /\ b_sleeps = 0

\* lines 314-321: the next batch is cut and every symbol of it is submitted.
BatchStart ==
    /\ b_pc = "loop"
    /\ b_i < Len(b_symbols)
    /\ LET batch == Slice(b_symbols, b_i, b_batch_size)
       IN  /\ b_batch' = batch
           /\ b_queue' = batch
           /\ b_submits' = [s \in SymbolIds |->
                               IF s \in Range(batch) THEN b_submits[s] + 1 ELSE b_submits[s]]
           /\ b_batches' = Append(b_batches, batch)
    /\ b_pc' = "submitted"
    /\ UNCHANGED <<b_symbols, b_batch_size, b_workers, b_i, b_running, b_snapshot,
                   b_waiter, b_all_data, b_stage, b_finished, b_early, b_sleeps>>
    /\ UNCHANGED others_batch

\* A pool thread takes the oldest queued task and starts _fetch_one.
WorkerStart ==
    /\ b_pc \in {"submitted", "collecting"}
    /\ b_queue # <<>>
    /\ Cardinality(b_running) < PoolSize(b_workers, b_batch)
    /\ b_running' = b_running \cup {Head(b_queue)}
    /\ b_queue' = Tail(b_queue)
    /\ UNCHANGED <<b_symbols, b_batch_size, b_workers, b_i, b_pc, b_batch, b_snapshot,
                   b_waiter, b_all_data, b_stage, b_submits, b_batches, b_finished, b_early,
                   b_sleeps>>
    /\ UNCHANGED others_batch

\* Mutant: the newest finished future is yielded first.
AddResultFirst(waiter, s) == <<s>> \o waiter

\* as_completed's waiter notes a future that finishes while it waits, after
\* the ones it has noted before.
AddResult(waiter, s) == Append(waiter, s)

\* _fetch_one(s) ends in a pool thread; its future becomes finished.
WorkerFinish(s, o) ==
    /\ s \in b_running
    /\ b_running' = b_running \ {s}
    /\ b_stage' = [b_stage EXCEPT ![s] = o]
    /\ b_finished' = Append(b_finished, s)
    /\ IF b_pc = "submitted"
       THEN /\ b_snapshot' = b_snapshot \cup {s}
            /\ b_early' = b_early \cup {s}
            /\ UNCHANGED b_waiter
       ELSE /\ b_waiter' = AddResult(b_waiter, s)
            /\ UNCHANGED <<b_snapshot, b_early>>
    /\ UNCHANGED <<b_symbols, b_batch_size, b_workers, b_i, b_pc, b_batch, b_queue,
                   b_all_data, b_submits, b_batches, b_sleeps>>
    /\ UNCHANGED others_batch

\* line 322: the main thread calls as_completed, which first yields the futures
\* already finished, in no particular order (it keeps them in a set).
AsCompleted ==
    /\ b_pc = "submitted"
    /\ b_pc' = "collecting"
    /\ UNCHANGED <<b_symbols, b_batch_size, b_workers, b_i, b_batch, b_queue, b_running,
                   b_snapshot, b_waiter, b_all_data, b_stage, b_submits, b_batches,
                   b_finished, b_early, b_sleeps>>
    /\ UNCHANGED others_batch

\* lines 323-330 for one yielded future
Collect(s) ==
    LET res == FetchOne(s, b_stage[s])
    IN  b_all_data' = IF Truthy(res) THEN Append(b_all_data, res) ELSE b_all_data

\* as_completed yields a future that was finished when it was called.
YieldSnapshot(s) ==
    /\ b_pc = "collecting"
    /\ s \in b_snapshot
    /\ b_snapshot' = b_snapshot \ {s}
    /\ Collect(s)
    /\ UNCHANGED <<b_symbols, b_batch_size, b_workers, b_i, b_pc, b_batch, b_queue,
                   b_running, b_waiter, b_stage, b_submits, b_batches, b_finished, b_early,
                   b_sleeps>>
    /\ UNCHANGED others_batch

\* as_completed yields the futures finished since, in finishing order.
YieldWaiter ==
    /\ b_pc = "collecting"
    /\ b_snapshot = {}
    /\ b_waiter # <<>>
    /\ b_waiter' = Tail(b_waiter)
    /\ Collect(Head(b_waiter))
    /\ UNCHANGED <<b_symbols, b_batch_size, b_workers, b_i, b_pc, b_batch, b_queue,
                   b_running, b_snapshot, b_stage, b_submits, b_batches, b_finished, b_early,
                   b_sleeps>>
    /\ UNCHANGED others_batch

\* Mutant: the loop over as_completed ends with the futures found finished.
AllYieldedEarly(queue, running, snapshot, waiter) == snapshot = {}

\* as_completed is exhausted when every submitted future has finished and
\* has been yielded.
AllYielded(queue, running, snapshot, waiter) ==
    queue = <<>> /\ running = {} /\ snapshot = {} /\ waiter = <<>>

\* Every future was yielded: the with block is left (lines 320-330), the
\* inter-batch sleep is taken if another batch follows (lines 332-334), and the
\* loop steps.
BatchEnd ==
    /\ b_pc = "collecting"
    /\ AllYielded(b_queue, b_running, b_snapshot, b_waiter)
    /\ b_sleeps' = IF MoreBatches(b_i, b_batch_size, b_symbols) THEN b_sleeps + 1 ELSE b_sleeps
    /\ b_i' = NextIndex(b_i, b_batch_size)
    /\ b_pc' = "loop"
    /\ UNCHANGED <<b_symbols, b_batch_size, b_workers, b_batch, b_queue, b_running,
                   b_snapshot, b_waiter, b_all_data, b_stage, b_submits, b_batches,
                   b_finished, b_early>>
    /\ UNCHANGED others_batch

\* line 336
BatchReturn ==
    /\ b_pc = "loop"
    /\ b_i >= Len(b_symbols)
    /\ b_pc' = "done"
    /\ UNCHANGED <<b_symbols, b_batch_size, b_workers, b_i, b_batch, b_queue, b_running,
                   b_snapshot, b_waiter, b_all_data, b_stage, b_submits, b_batches,
                   b_finished, b_early, b_sleeps>>
    /\ UNCHANGED others_batch

NextBatch ==
    \/ BatchStart
    \/ WorkerStart
    \/ \E s \in SymbolIds, o \in StageOutcomes : WorkerFinish(s, o)
    \/ AsCompleted
    \/ \E s \in SymbolIds : YieldSnapshot(s)
    \/ YieldWaiter
    \/ BatchEnd
    \/ BatchReturn

\* ------------------------------------------------------------------------
\* handle_sort and generate_table (src/aks_market.py, lines 614-694)
\* ------------------------------------------------------------------------
\* A value that may be None: None, a number, or one of the floats that are no
\* finite number (nan, and inf with its sign in v).
NoValue == [isNone |-> TRUE, v |-> 0, kind |-> "none"]
Some(x) == [isNone |-> FALSE, v |-> x, kind |-> "num"]
NaN == [isNone |-> FALSE, v |-> 0, kind |-> "nan"]
Inf(sign) == [isNone |-> FALSE, v |-> sign, kind |-> "inf"]

\* A string kept as it came from the provider, known by its rank among the
\* strings in Python's string order
Text(rank) == [isNone |-> FALSE, v |-> rank, kind |-> "str"]
OptValues == {NoValue} \cup {Some(x) : x \in 0..MaxValue}

\* The header buttons modelled (lines 766, 776 and 779), and line 477
SortColumns == {"SYMBOL", "PE", "52W_HIGH"}
NoColumn == "None"

\* column_mapping.get(sort_column) (lines 665-686)
ColumnMapping(sort_column) ==
    CASE sort_column = "SYMBOL" -> "SYMBOL"
      [] sort_column = "PE" -> "PE"
      [] sort_column = "52W_HIGH" -> "52WEEK_HIGH"
      [] OTHER -> NoColumn

\* The key of line 692: (x.get(data_key) is None, x.get(data_key) or 0 for None)
SortKey(row, data_key) ==
    LET x == row[data_key]
    IN  <<x.isNone, IF ~x.isNone THEN x ELSE Some(0)>>

\* Python's < on the key tuples (False < True); the second components are
\* compared when the first are equal
KeyLess(a, b) ==
    \/ (~a[1] /\ b[1])
    \/ (a[1] = b[1] /\ a[2].v < b[2].v)

\* Comparing two keys raises TypeError when it comes to comparing a number
\* with a string.
KeyRaises(a, b) == a[1] = b[1] /\ a[2].kind # b[2].kind

\* sorted raises when two of the keys cannot be compared: the keys with a value
\* all stand before the keys of None, and a sort cannot order them without
\* comparing some number with some string.
SortRaises(rows, data_key) ==
    \E p, q \in 1..Len(rows) :
        KeyRaises(SortKey(rows[p], data_key), SortKey(rows[q], data_key))

Reverse(seq) == [k \in 1..Len(seq) |-> seq[Len(seq) + 1 - k]]

\* One step of a stable sort: x goes behind every element that is not greater.
InsertStable(sorted, x, data_key) ==
    LET keep == {k \in 1..Len(sorted) :
                    ~KeyLess(SortKey(x, data_key), SortKey(sorted[k], data_key))}
        p == Cardinality(keep)
    IN  SubSeq(sorted, 1, p) \o <<x>> \o SubSeq(sorted, p + 1, Len(sorted))

\* list.sort(key=...) without reverse: a stable ascending sort
RECURSIVE StableSort(_, _)
StableSort(rows, data_key) ==
    IF rows = <<>> THEN <<>>
    ELSE InsertStable(StableSort(SubSeq(rows, 1, Len(rows) - 1), data_key),
                      rows[Len(rows)], data_key)

\* Mutant: the descending order is the ascending result reversed.
SortedThenReversed(rows, data_key, reverse) ==
    IF reverse THEN Reverse(StableSort(rows, data_key))
    ELSE StableSort(rows, data_key)

\* sorted(rows, key=..., reverse=reverse) (lines 690-694): with reverse, CPython
\* reverses the list, sorts it stably and reverses the result, which keeps
\* equal keys in their original order.
Sorted(rows, data_key, reverse) ==
    IF reverse THEN Reverse(StableSort(Reverse(rows), data_key))
    ELSE StableSort(rows, data_key)

\* line 689
IsReverse(sort_direction) == sort_direction = "desc"

\* Mutant: a click on another column keeps the direction.
NewDirectionKept(column, current_column, current_direction) ==
    IF column = current_column
    THEN (IF current_direction = "asc" THEN "desc" ELSE "asc")
    ELSE current_direction

\* lines 626-629
NewDirection(column, current_column, current_direction) ==
    IF column = current_column
    THEN (IF current_direction = "asc" THEN "desc" ELSE "asc")
    ELSE "desc"

\* lines 663 and 686-687: the rows are sorted
IsSorting(stocks_data, sort_column) ==
    /\ stocks_data # <<>>
    /\ sort_column # NoColumn
    /\ ColumnMapping(sort_column) # NoColumn

\* generate_table (lines 642-816): the rows of the table it returns
TableRows(stocks_data, sort_column, sort_direction) ==
    IF IsSorting(stocks_data, sort_column)
    THEN Sorted(stocks_data, ColumnMapping(sort_column), IsReverse(sort_direction))
    ELSE stocks_data

\* generate_table raises: nothing catches the TypeError of sorted (lines 690-694)
TableRaises(stocks_data, sort_column) ==
    /\ IsSorting(stocks_data, sort_column)
    /\ SortRaises(stocks_data, ColumnMapping(sort_column))

\* The 52-week high of a row is what the provider sent (lines 152 and 305):
\* None, a number or a string.
HighValues == {NoValue, Some(1), Text(1)}

StockRow(k, pe, high) ==
    [key \in {"SYMBOL", "PE", "52WEEK_HIGH"} |->
        CASE key = "SYMBOL" -> Some(k)
          [] key = "PE" -> pe
          [] OTHER -> high]

\* The rows a fetch can have stored: the k-th row carries the k-th symbol; the
\* lists vary the P/E or the 52-week high.
RowLists ==
    UNION { { [k \in 1..n |-> StockRow(k, f[k], NoValue)] : f \in [1..n -> OptValues] }
            \cup { [k \in 1..n |-> StockRow(k, NoValue, f[k])] : f \in [1..n -> HighValues] }
            : n \in 0..MaxRows }

InitSort ==
    /\ s_stocks \in RowLists
    /\ s_column = NoColumn
    /\ s_direction = "asc"
    /\ s_pending = FALSE
    /\ s_table = TableRows(s_stocks, NoColumn, "asc")
    /\ s_error = FALSE

IdleSort ==
    /\ s_stocks = <<>>
    /\ s_column = NoColumn
    /\ s_direction = "asc"
    /\ s_pending = FALSE
    /\ s_table = <<>>
    /\ s_error = FALSE

\* handle_sort (lines 614-631): the header button of a column is clicked.  The
\* buttons exist once a table with rows is rendered.
HandleSort(column) ==
    /\ s_table # <<>>
    /\ s_column' = column
    /\ s_direction' = NewDirection(column, s_column, s_direction)
    /\ s_pending' = TRUE
    /\ UNCHANGED <<s_stocks, s_table, s_error>>
    /\ UNCHANGED others_sort

\* generate_table (lines 642-816) runs on the changed stores.  When it raises,
\* the callback has no output and the table on screen stays.
GenerateTable ==
    /\ s_pending
    /\ IF TableRaises(s_stocks, s_column)
       THEN s_error' = TRUE /\ UNCHANGED s_table
       ELSE /\ s_error' = FALSE
            /\ s_table' = TableRows(s_stocks, s_column, s_direction)
    /\ s_pending' = FALSE
    /\ UNCHANGED <<s_stocks, s_column, s_direction>>
    /\ UNCHANGED others_sort

NextSort ==
    \/ \E column \in SortColumns : HandleSort(column)
    \/ GenerateTable

\* ------------------------------------------------------------------------
\* safe_float and get_fundamentals (src/aks_market.py, lines 25-38, 113-160)
\* ------------------------------------------------------------------------
\* A field of a provider record: missing or None, a number (in hundredths), a
\* string, or an object of another type with the text str() gives for it.
RawNone == [t |-> "none", n |-> 0, s |-> <<>>]
Num(n) == [t |-> "num", n |-> n, s |-> <<>>]
Str(s) == [t |-> "str", n |-> 0, s |-> s]
Other(s) == [t |-> "other", n |-> 0, s |-> s]

\* An int too large for a float: float(v) raises OverflowError
Huge == [t |-> "huge", n |-> 0, s |-> <<>>]

\* Python's truth value of a field: None, 0 and "" are false
IsTruthy(v) ==
    CASE v.t = "none" -> FALSE
      [] v.t = "num" -> v.n # 0
      [] OTHER -> v.s # <<>>

\* Python's  a or b
PyOr(a, b) == IF IsTruthy(a) THEN a ELSE b

Digits == <<"0","1","2","3","4","5","6","7","8","9">>
IsDigit(c) == \E i \in 1..Len(Digits) : Digits[i] = c
DigitValue(c) == (CHOOSE i \in 1..Len(Digits) : Digits[i] = c) - 1

UpperChar(c) ==
    IF \E i \in 1..Len(LowerChars) : LowerChars[i] = c
    THEN UpperChars[CHOOSE i \in 1..Len(LowerChars) : LowerChars[i] = c]
    ELSE c

\* str.upper()
Upper(s) == [i \in 1..Len(s) |-> UpperChar(s[i])]

IsSpace(c) == c \in {" ", "\t", "\n"}

\* str.strip()
RECURSIVE Strip(_)
Strip(s) ==
    IF s = <<>> THEN s
    ELSE IF IsSpace(s[1]) THEN Strip(Tail(s))
    ELSE IF IsSpace(s[Len(s)]) THEN Strip(SubSeq(s, 1, Len(s) - 1))
    ELSE s

NotComma(c) == c # ","

\* s.replace(",", "")
RemoveCommas(s) == SelectSeq(s, NotComma)

\* The number a string of digits denotes
RECURSIVE DecimalValue(_)
DecimalValue(ds) ==
    IF ds = <<>> THEN 0
    ELSE 10 * DecimalValue(SubSeq(ds, 1, Len(ds) - 1)) + DigitValue(ds[Len(ds)])

\* The spellings float() reads as nan and as infinity, in any letter case
NanSpellings == {<<"n", "a", "n">>}
InfSpellings == {<<"i", "n", "f">>, <<"i", "n", "f", "i", "n", "i", "t", "y">>}

\* float(s) for a string, in hundredths: an optional sign, then digits with at
\* most one point and a digit somewhere, or a spelling of nan or infinity;
\* anything else raises ValueError, which line 37 turns into None.  (The
\* strings of the model carry at most two decimals and no exponent or
\* underscore.)
ParseFloat(s) ==
    LET signed == s # <<>> /\ s[1] \in {"+", "-"}
        negative == signed /\ s[1] = "-"
        body == IF signed THEN Tail(s) ELSE s
        dots == {k \in 1..Len(body) : body[k] = "."}
        dot == IF dots = {} THEN Len(body) + 1 ELSE CHOOSE k \in dots : TRUE
        whole == SubSeq(body, 1, dot - 1)
        frac == SubSeq(body, dot + 1, Len(body))
        valid == /\ Cardinality(dots) <= 1
                 /\ \A k \in 1..Len(body) : k \in dots \/ IsDigit(body[k])
                 /\ Len(whole) + Len(frac) >= 1
        tenths == IF Len(frac) >= 1 THEN DigitValue(frac[1]) ELSE 0
        hundredths == IF Len(frac) >= 2 THEN DigitValue(frac[2]) ELSE 0
        magnitude == 100 * DecimalValue(whole) + 10 * tenths + hundredths
    IN  IF Lower(body) \in NanSpellings THEN NaN
        ELSE IF Lower(body) \in InfSpellings THEN Inf(IF negative THEN 0 - 1 ELSE 1)
        ELSE IF valid THEN Some(IF negative THEN 0 - magnitude ELSE magnitude)
        ELSE NoValue

\* Mutant: the commas are left in the string.
SafeFloatKeepCommas(v) ==
    CASE v.t = "none" -> NoValue
      [] v.t = "num" -> Some(v.n)
      [] v.t = "huge" -> NoValue
      [] OTHER ->
            LET stripped == Strip(v.s)
            IN  IF stripped = <<>> \/ Upper(stripped) = <<"N", "A">>
                THEN NoValue
                ELSE ParseFloat(stripped)

\* safe_float (lines 25-38); an object that is no number goes through str()
SafeFloat(v) ==
    CASE v.t = "none" -> NoValue
      [] v.t = "num" -> Some(v.n)
      [] v.t = "huge" -> NoValue
      [] OTHER ->
            LET stripped == Strip(v.s)
            IN  IF stripped = <<>> \/ Upper(stripped) = <<"N", "A">>
                THEN NoValue
                ELSE ParseFloat(RemoveCommas(stripped))

\* round(n / d, 2) of Python for the quotient of two integers, in hundredths of
\* the unit of n / d: to the nearest, a tie to the even neighbour.
RoundHalfEven(n, d) ==
    LET nn == IF d < 0 THEN 0 - n ELSE n
        dd == IF d < 0 THEN 0 - d ELSE d
        q == nn \div dd
        r == nn % dd
    IN  IF 2 * r < dd THEN q
        ELSE IF 2 * r > dd THEN q + 1
        ELSE IF q % 2 = 0 THEN q ELSE q + 1

\* A quotient kept exactly: n / d, or None
NoRatio == [isNone |-> TRUE, n |-> 0, d |-> 1]
Ratio(n, d) == [isNone |-> FALSE, n |-> n, d |-> d]

\* round(x, 2) if x is not None else None (lines 148-150), in hundredths
Round2(x) ==
    IF x.isNone THEN NoValue ELSE Some(RoundHalfEven(x.n, x.d))

\* Mutant: the operands of the division are swapped.
DeriveEpsSwapped(pe, last_price) ==
    IF ~pe.isNone /\ ~last_price.isNone /\ pe.v # 0 /\ last_price.v # 0
    THEN Ratio(100 * pe.v, last_price.v)
    ELSE NoRatio

\* lines 128-133: eps = last_price / pe, as the exact quotient in hundredths
DeriveEps(pe, last_price) ==
    IF ~pe.isNone /\ ~last_price.isNone /\ pe.v # 0
    THEN Ratio(100 * last_price.v, pe.v)
    ELSE NoRatio

\* Mutant: the issued size is taken for the market cap, the price is left out.
DeriveMcapIssuedOnly(issued_f, last_price) ==
    IF ~issued_f.isNone /\ ~last_price.isNone
    THEN Ratio(issued_f.v * 100, 100)
    ELSE NoRatio

\* lines 135-142: mcap = issued_f * last_price, as the exact product in hundredths
DeriveMcap(issued_f, last_price) ==
    IF ~issued_f.isNone /\ ~last_price.isNone
    THEN Ratio(issued_f.v * last_price.v, 100)
    ELSE NoRatio

\* What get_nse_data returns: a falsy value (None, {}), something that is not a
\* dict, or the quote record with its sections.
Quote(kind, pdSymbolPe, pdSectorPe, lastPrice, close, issuedSize, issuedShares, issuedCapital, industry) ==
    [kind |-> kind, pdSymbolPe |-> pdSymbolPe, pdSectorPe |-> pdSectorPe,
     lastPrice |-> lastPrice, close |-> close, issuedSize |-> issuedSize,
     issuedShares |-> issuedShares, issuedCapital |-> issuedCapital,
     industry |-> industry]

EmptyQuote(kind) ==
    Quote(kind, RawNone, RawNone, RawNone, RawNone, RawNone, RawNone, RawNone, RawNone)

StrZero == <<"0">>
StrNA == <<" ", "n", "a">>
StrPrice == <<"1", "2", ".", "5", "0">>
StrIssued == <<"1", ",", "0", "0", "0">>
StrIT == <<"I", "T">>

PeRaws == {RawNone, Num(0), Num(300), Num(700), Str(StrZero), Str(StrNA)}
SectorPeRaws == {RawNone, Num(0), Num(600)}
PriceRaws == {RawNone, Num(0), Num(100), Num(1055), Str(StrPrice)}
CloseRaws == {RawNone, Num(200)}
IssuedSizeRaws == {RawNone, Num(0), Num(112), Num(250000), Str(StrIssued)}
IssuedSharesRaws == {RawNone, Num(50000)}
IssuedCapitalRaws == {RawNone, Num(30000)}
IndustryRaws == {RawNone, Str(StrIT)}

Quotes ==
    {EmptyQuote("none"), EmptyQuote("junk")} \cup
    { Quote("dict", a, b, c, d, e, f, g, h) :
        a \in PeRaws, b \in SectorPeRaws, c \in PriceRaws, d \in CloseRaws,
        e \in IssuedSizeRaws, f \in IssuedSharesRaws, g \in IssuedCapitalRaws,
        h \in IndustryRaws }

NoFund == [PE |-> NoValue, EPS |-> NoValue, MarketCap |-> NoValue,
           Sector |-> <<>>, lastPrice |-> NoValue]

StrNotAvailable == <<"N", "/", "A">>

\* lines 120-156: the record built from a dict
Fundamentals(data) ==
    LET pe == SafeFloat(PyOr(data.pdSymbolPe, data.pdSectorPe))
        last_price == SafeFloat(PyOr(data.lastPrice, data.close))
        eps == DeriveEps(pe, last_price)
        issued == PyOr(PyOr(data.issuedSize, data.issuedShares), data.issuedCapital)
        issued_f == SafeFloat(issued)
        mcap == DeriveMcap(issued_f, last_price)
        sector == data.industry
    IN  [PE |-> pe,
         EPS |-> Round2(eps),
         MarketCap |-> Round2(mcap),
         Sector |-> IF IsTruthy(sector) THEN sector.s ELSE StrNotAvailable,
         lastPrice |-> last_price]

InitFund ==
    /\ f_data \in Quotes
    /\ f_pc = "start"
    /\ f_isNone = FALSE
    /\ f_fund = NoFund

IdleFund ==
    /\ f_data = EmptyQuote("none")
    /\ f_pc = "idle"
    /\ f_isNone = FALSE
    /\ f_fund = NoFund

\* lines 117-118: a falsy quote
FundNoData ==
    /\ f_pc = "start"
    /\ f_data.kind = "none"
    /\ f_pc' = "done"
    /\ f_isNone' = TRUE
    /\ UNCHANGED <<f_data, f_fund>>
    /\ UNCHANGED others_fund

\* lines 120 and 158-160: data.get raises on a value that is no dict
FundFetchError ==
    /\ f_pc = "start"
    /\ f_data.kind = "junk"
    /\ f_pc' = "done"
    /\ f_isNone' = TRUE
    /\ UNCHANGED <<f_data, f_fund>>
    /\ UNCHANGED others_fund

\* lines 120-156
FundDerived ==
    /\ f_pc = "start"
    /\ f_data.kind = "dict"
    /\ f_pc' = "done"
    /\ f_isNone' = FALSE
    /\ f_fund' = Fundamentals(f_data)
    /\ UNCHANGED f_data
    /\ UNCHANGED others_fund

\* get_fundamentals (lines 113-160)
NextFund ==
    \/ FundNoData
    \/ FundFetchError
    \/ FundDerived


\* ------------------------------------------------------------------------
\* get_volume_stats (src/aks_market.py, lines 202-247)
\* ------------------------------------------------------------------------
\* What a call of tk.history does: it raises, it returns a frame without volume
\* data (no Volume column, or an empty one), or it returns a frame whose volume
\* figure (the mean, the sum or the last value the code takes) is vol.  Volumes
\* are whole numbers.
HistRaise == [kind |-> "raise", vol |-> 0]
HistNoVolume == [kind |-> "novolume", vol |-> 0]
HistOk(vol) == [kind |-> "ok", vol |-> vol]

AvgHistories == {HistRaise, HistNoVolume, HistOk(0), HistOk(100)}
IntradayHistories == {HistRaise, HistNoVolume, HistOk(0), HistOk(150)}
DailyHistories == {HistRaise, HistNoVolume, HistOk(0), HistOk(120)}

\* lines 212-213, 220-221, 225-226: the figure, if the frame has volume data
HistVolume(h) == IF h.kind = "ok" THEN Some(h.vol) ELSE NoValue

\* Mutant: an intraday frame without volume data also falls back.
IntradayFailedOrEmpty(h) == h.kind # "ok"

\* line 222: the daily series is tried when the intraday call raised
IntradayFailed(h) == h.kind = "raise"

\* lines 230-235: the change in percent, kept as the exact quotient
VolChangePct(avg_vol, todays_vol) ==
    IF ~avg_vol.isNone /\ avg_vol.v # 0 /\ ~todays_vol.isNone
    THEN Ratio(100 * (todays_vol.v - avg_vol.v), avg_vol.v)
    ELSE NoRatio

VolStats(avg_vol, todays_vol, vol_change_pct) ==
    [avg_volume |-> avg_vol, todays_volume |-> todays_vol,
     volume_change_pct |-> vol_change_pct]

\* lines 243-247: the record that stands in for a None of retry_with_backoff
NoStats == VolStats(NoValue, NoValue, NoRatio)

InitVol ==
    /\ v_ticker \in {"ok", "raise"}
    /\ v_h30 \in AvgHistories
    /\ v_h1m \in IntradayHistories
    /\ v_h1d \in DailyHistories
    /\ v_pc = "start"
    /\ v_avg = NoValue
    /\ v_today = NoValue
    /\ v_calls = <<>>
    /\ v_stats = NoStats

IdleVol ==
    /\ v_ticker = "ok"
    /\ v_h30 = HistRaise
    /\ v_h1m = HistRaise
    /\ v_h1d = HistRaise
    /\ v_pc = "idle"
    /\ v_avg = NoValue
    /\ v_today = NoValue
    /\ v_calls = <<>>
    /\ v_stats = NoStats

\* lines 207 and 243-247: _fetch_volume raises outside its try blocks on every
\* invocation, retry_with_backoff returns None and the all-None record is
\* returned.
VolFetchFails ==
    /\ v_pc = "start"
    /\ v_ticker = "raise"
    /\ v_stats' = NoStats
    /\ v_pc' = "done"
    /\ UNCHANGED <<v_ticker, v_h30, v_h1m, v_h1d, v_avg, v_today, v_calls>>
    /\ UNCHANGED others_vol

\* lines 209-215: the 30-day average
VolAverage ==
    /\ v_pc = "start"
    /\ v_ticker = "ok"
    /\ v_calls' = Append(v_calls, "30d")
    /\ v_avg' = HistVolume(v_h30)
    /\ v_pc' = "today"
    /\ UNCHANGED <<v_ticker, v_h30, v_h1m, v_h1d, v_today, v_stats>>
    /\ UNCHANGED others_vol

\* lines 217-222: today's volume from the 1-minute series
VolIntraday ==
    /\ v_pc = "today"
    /\ v_calls' = Append(v_calls, "1m")
    /\ IF IntradayFailed(v_h1m)
       THEN v_pc' = "daily" /\ UNCHANGED v_today
       ELSE v_pc' = "change" /\ v_today' = HistVolume(v_h1m)
    /\ UNCHANGED <<v_ticker, v_h30, v_h1m, v_h1d, v_avg, v_stats>>
    /\ UNCHANGED others_vol

\* lines 223-228: today's volume from the daily series
VolDaily ==
    /\ v_pc = "daily"
    /\ v_calls' = Append(v_calls, "1d")
    /\ v_today' = HistVolume(v_h1d)
    /\ v_pc' = "change"
    /\ UNCHANGED <<v_ticker, v_h30, v_h1m, v_h1d, v_avg, v_stats>>
    /\ UNCHANGED others_vol

\* lines 230-247: the change and the returned record
VolReturn ==
    /\ v_pc = "change"
    /\ v_stats' = VolStats(v_avg, v_today, VolChangePct(v_avg, v_today))
    /\ v_pc' = "done"
    /\ UNCHANGED <<v_ticker, v_h30, v_h1m, v_h1d, v_avg, v_today, v_calls>>
    /\ UNCHANGED others_vol

NextVol ==
    \/ VolFetchFails
    \/ VolAverage
    \/ VolIntraday
    \/ VolDaily
    \/ VolReturn


\* ------------------------------------------------------------------------
\* safe_float on its own (src/aks_market.py, lines 25-38)
\* ------------------------------------------------------------------------
\* The texts given to safe_float, without surrounding whitespace
BlankTexts == {<<>>}
NaTexts == {<<"N", "A">>, <<"n", "a">>, <<"N", "a">>, <<"n", "A">>}
WordTexts ==
    {<<"N", "/", "A">>, <<"-">>, <<"a", "b", "c">>, <<"1", "2", "a">>,
     <<"1", ".", "2", ".", "3">>, <<".">>, <<"1", " ", "0">>, <<"+">>}
SpecialTexts ==
    {<<"n", "a", "n">>, <<"N", "a", "N">>, <<"i", "n", "f">>, <<"-", "i", "n", "f">>,
     <<"I", "n", "f", "i", "n", "i", "t", "y">>}
DecimalTexts ==
    {<<"0">>, <<"7">>, <<"1", "2", ".", "5", "0">>, <<"-", "5">>, <<"+", "5">>,
     <<".", "5">>, <<"5", ".">>, <<"0", "0", "7">>}
SeparatedTexts ==
    {<<"1", ",", "0", "0", "0">>, <<"1", ",", "2", "3", "4", ".", "5">>,
     <<"-", "2", ",", "5", "0", "0">>}
CommaTexts == {<<"1", ",", "5">>, <<",", "5">>, <<",">>}
FloatTexts ==
    BlankTexts \cup NaTexts \cup WordTexts \cup SpecialTexts \cup DecimalTexts
        \cup SeparatedTexts \cup CommaTexts

\* The whitespace around a text
Paddings == {<<>>, <<" ">>, <<"\t">>}
Padded(text) == {left \o text \o right : left \in Paddings, right \in Paddings}

\* The arguments: None, ints and floats, strings, and objects of other types
\* by their str() (a list, a dict, a Decimal)
FloatNumbers == {0 - 150, 0, 1, 1250}
OtherTexts == {<<"[", "1", "]">>, <<"{", "}">>, <<"2", ".", "5">>}
FloatInputs ==
    {RawNone, Huge} \cup {Num(n) : n \in FloatNumbers}
        \cup {Str(p) : p \in UNION {Padded(text) : text \in FloatTexts}}
        \cup {Other(text) : text \in OtherTexts}

InitFloat ==
    /\ sf_v \in FloatInputs
    /\ sf_pc = "start"
    /\ sf_result = NoValue

IdleFloat ==
    /\ sf_v = RawNone
    /\ sf_pc = "idle"
    /\ sf_result = NoValue

\* safe_float (lines 25-38): every path returns
SafeFloatCall ==
    /\ sf_pc = "start"
    /\ sf_result' = SafeFloat(sf_v)
    /\ sf_pc' = "done"
    /\ UNCHANGED sf_v
    /\ UNCHANGED others_float

NextFloat == SafeFloatCall


\* ------------------------------------------------------------------------
\* The memoized accessors get_nse_data, get_fundamentals and
\* get_historical_comparison (src/aks_market.py, lines 101-118 and 166-196)
\* ------------------------------------------------------------------------
\* The expire arguments of cache.memoize (1800, 1800 and 3600 seconds), in
\* units of 900 seconds
NseExpire == 2
FundExpire == 2
HistExpire == 4

\* The values of days the calls are made with
DaysValues == {10, 50}

\* A cache entry: the stored result (None, or data read from the provider at
\* time version), when it was stored and when it expires.
NoEntry == [has |-> FALSE, isNone |-> TRUE, version |-> 0, stored |-> 0 - 1, expires |-> 0]
Entry(isNone, version, stored, expire) ==
    [has |-> TRUE, isNone |-> isNone, version |-> version, stored |-> stored,
     expires |-> stored + expire]

\* Mutant: an entry that holds None counts as missing.
IsCachedUnlessNone(entry, now) == entry.has /\ entry.expires > now /\ ~entry.isNone

\* diskcache returns an entry until its expire time; a stored None is a result
\* like any other.
IsCached(entry, now) == entry.has /\ entry.expires > now

\* What the provider does when it is asked
ProviderOutcomes == {"ok", "fail"}

\* get_nse_data (lines 101-107): the entry after the call.  A provider failure
\* ends as the None of retry_with_backoff, which is stored.
NseEntryAfter(entry, now, outcome) ==
    IF IsCached(entry, now) THEN entry
    ELSE Entry(outcome = "fail", IF outcome = "ok" THEN now ELSE 0, now, NseExpire)

\* Mutant: the fundamentals are dropped together with an expired quote.
FundIsCachedWithQuote(fund, nse, now) == IsCached(fund, now) /\ IsCached(nse, now)

\* get_fundamentals is served from its own entry, whatever the quote entry is
FundIsCached(fund, nse, now) == IsCached(fund, now)

\* get_fundamentals (lines 113-160): its entry after a call that computes
FundEntryAfter(data, now) == Entry(data.isNone, data.version, now, FundExpire)

\* get_historical_comparison (lines 166-196): the entry after the call.  A
\* provider failure ends as (None, None, None), which is stored.
HistEntryAfter(entry, now, outcome) ==
    IF IsCached(entry, now) THEN entry
    ELSE Entry(outcome = "fail", 0, now, HistExpire)

NoCall ==
    [fn |-> "none", days |-> 0, at |-> 0, isNone |-> TRUE, version |-> 0,
     stored |-> 0, hit |-> FALSE, invoked |-> FALSE, prior |-> 0 - 1,
     prior_none |-> FALSE, symbol_failed |-> 0 - 1]

\* The record of a call: the accessor and its days, the time, the result (None
\* or data of time version, stored at time stored), whether the accessor's own
\* cache served it, whether the provider was invoked; and from before the call:
\* when the entry of the same arguments was stored (-1: never) and whether it
\* held None, and when the accessor last stored a None for the symbol that no
\* later store replaced (-1: never).
Call(fn, days, at, result, hit, invoked, before, symbol_failed) ==
    [fn |-> fn, days |-> days, at |-> at, isNone |-> result.isNone,
     version |-> result.version, stored |-> result.stored, hit |-> hit,
     invoked |-> invoked, prior |-> before.stored,
     prior_none |-> before.has /\ before.isNone, symbol_failed |-> symbol_failed]

\* When the entry was stored, if it holds None
FailedAt(entry) == IF entry.has /\ entry.isNone THEN entry.stored ELSE 0 - 1

Latest(times) == CHOOSE t \in times : \A u \in times : u <= t

InitCache ==
    /\ c_now = 0
    /\ c_nse = NoEntry
    /\ c_fund = NoEntry
    /\ c_hist = [d \in DaysValues |-> NoEntry]
    /\ c_log = NoCall

IdleCache ==
    /\ c_now = 0 - 1
    /\ c_nse = NoEntry
    /\ c_fund = NoEntry
    /\ c_hist = [d \in DaysValues |-> NoEntry]
    /\ c_log = NoCall

\* Time passes.
CacheTick ==
    /\ c_now >= 0
    /\ c_now < MaxTime
    /\ c_now' = c_now + 1
    /\ UNCHANGED <<c_nse, c_fund, c_hist, c_log>>
    /\ UNCHANGED others_cache

\* get_nse_data(symbol) is called (lines 101-107).
CallNse(outcome) ==
    /\ c_now >= 0
    /\ LET hit == IsCached(c_nse, c_now)
           entry == NseEntryAfter(c_nse, c_now, outcome)
       IN  /\ c_nse' = entry
           /\ c_log' = Call("nse", 0, c_now, entry, hit, ~hit, c_nse, FailedAt(c_nse))
    /\ UNCHANGED <<c_now, c_fund, c_hist>>
    /\ UNCHANGED others_cache

\* get_fundamentals(symbol) is called (lines 113-160): served from its entry,
\* or computed from get_nse_data(symbol) and stored.
CallFund(outcome) ==
    /\ c_now >= 0
    /\ LET hit == FundIsCached(c_fund, c_nse, c_now)
           invoked == ~hit /\ ~IsCached(c_nse, c_now)
           data == NseEntryAfter(c_nse, c_now, outcome)
           entry == IF hit THEN c_fund ELSE FundEntryAfter(data, c_now)
       IN  /\ c_nse' = IF hit THEN c_nse ELSE data
           /\ c_fund' = entry
           /\ c_log' = Call("fund", 0, c_now, entry, hit, invoked, c_fund, FailedAt(c_fund))
    /\ UNCHANGED <<c_now, c_hist>>
    /\ UNCHANGED others_cache

\* get_historical_comparison(symbol, days) is called (lines 166-196).
CallHist(days, outcome) ==
    /\ c_now >= 0
    /\ LET hit == IsCached(c_hist[days], c_now)
           entry == HistEntryAfter(c_hist[days], c_now, outcome)
       IN  /\ c_hist' = [c_hist EXCEPT ![days] = entry]
           /\ c_log' = Call("hist", days, c_now, entry, hit, ~hit, c_hist[days],
                            Latest({FailedAt(c_hist[d]) : d \in DaysValues}))
    /\ UNCHANGED <<c_now, c_nse, c_fund>>
    /\ UNCHANGED others_cache

NextCache ==
    \/ CacheTick
    \/ \E outcome \in ProviderOutcomes : CallNse(outcome)
    \/ \E outcome \in ProviderOutcomes : CallFund(outcome)
    \/ \E days \in DaysValues, outcome \in ProviderOutcomes : CallHist(days, outcome)


\* ------------------------------------------------------------------------
\* The page: load_symbols_with_industries, initialize_data,
\* toggle_refresh_and_interval and fetch_industry_data
\* (src/aks_market.py, lines 67-92 and 447-602)
\* ------------------------------------------------------------------------
FileStates == {"present", "missing", "unreadable"}

\* The symbol -> industry pairs of the CSV file when it is there
FileMapping == {<<"INFY", "IT">>, <<"TCS", "IT">>, <<"SBIN", "BANK">>, <<"XYZ", "N/A">>}

\* The entry of load_symbols_with_industries in the persistent cache
\* (./cache_dir, kept for 24 hours): missing or expired, or a stored mapping.
NoMemo == [has |-> FALSE, value |-> {}]
Memo(value) == [has |-> TRUE, value |-> value]
Memos == {NoMemo, Memo({}), Memo(FileMapping)}

\* Mutant: the file is read on every call.
LoadSymbolsUncached(file, memo) == IF file = "present" THEN FileMapping ELSE {}

\* load_symbols_with_industries (lines 67-92): the memoized result, else the
\* mapping read from the file, else {} (FileNotFoundError, any other exception)
LoadSymbols(file, memo) ==
    IF memo.has THEN memo.value
    ELSE IF file = "present" THEN FileMapping ELSE {}

\* How the call got its result
LoadPath(file, memo) ==
    IF memo.has THEN "cached"
    ELSE CASE file = "present" -> "read"
           [] file = "missing" -> "missing"
           [] OTHER -> "error"

\* initialize_data (lines 515-520): the values of the dropdown options
Options(mapping) ==
    IF mapping = {} THEN {}
    ELSE {"ALL"} \cup ({p[2] : p \in mapping} \ {"N/A"})

\* fetch_industry_data (lines 582-588)
SymbolsInIndustry(mapping, industry) ==
    IF industry = "ALL" THEN {p[1] : p \in mapping}
    ELSE {p[1] : p \in {q \in mapping : q[2] = industry}}

\* The values of days-input; NoDays is the emptied input
NoDays == 0
DaysInputs == {NoDays, 10, 50}

\* fetch_industry_data (line 560)
DaysComparison(days_input) == IF days_input > 0 THEN days_input ELSE 10

NotRunning == [on |-> FALSE, industry |-> None, days |-> 10, mapping |-> {}]
EmptyStore == [key |-> None, symbols |-> {}]

\* fetch_industry_data (line 556): the early return
FetchGuard(industry, mapping) == industry = None \/ mapping = {}

\* The page as laid out (lines 447-478), before any callback has run; every
\* callback without prevent_initial_call is due.
InitUi ==
    /\ u_file \in FileStates
    /\ u_memo \in Memos
    /\ u_load = "pending"
    /\ u_map = {}
    /\ u_options = {}
    /\ u_industry = None
    /\ u_days = 10
    /\ u_btn_disabled = TRUE
    /\ u_interval_disabled = TRUE
    /\ u_toggle_pending = TRUE
    /\ u_fetch_pending = TRUE
    /\ u_running = NotRunning
    /\ u_store = EmptyStore
    /\ u_current_days = 10
    /\ u_started = FALSE
    /\ u_events = 0

IdleUi ==
    /\ u_file = "present"
    /\ u_memo = NoMemo
    /\ u_load = "pending"
    /\ u_map = {}
    /\ u_options = {}
    /\ u_industry = None
    /\ u_days = 10
    /\ u_btn_disabled = TRUE
    /\ u_interval_disabled = TRUE
    /\ u_toggle_pending = FALSE
    /\ u_fetch_pending = FALSE
    /\ u_running = NotRunning
    /\ u_store = EmptyStore
    /\ u_current_days = 10
    /\ u_started = FALSE
    /\ u_events = 0 - 1

\* initialize_data (lines 504-524)
InitializeData ==
    /\ u_events >= 0
    /\ u_load = "pending"
    /\ LET mapping == LoadSymbols(u_file, u_memo)
       IN  /\ u_load' = LoadPath(u_file, u_memo)
           /\ u_memo' = IF u_memo.has THEN u_memo ELSE Memo(mapping)
           /\ u_map' = mapping
           /\ u_options' = Options(mapping)
    /\ UNCHANGED <<u_file, u_industry, u_days, u_btn_disabled, u_interval_disabled,
                   u_toggle_pending, u_fetch_pending, u_running, u_store,
                   u_current_days, u_started, u_events>>
    /\ UNCHANGED others_ui

\* The user picks an option of the dropdown.
SelectIndustry(industry) ==
    /\ u_events >= 0
    /\ u_events < MaxEvents
    /\ industry \in u_options
    /\ industry # u_industry
    /\ u_industry' = industry
    /\ u_toggle_pending' = TRUE
    /\ u_fetch_pending' = TRUE
    /\ u_events' = u_events + 1
    /\ UNCHANGED <<u_file, u_memo, u_load, u_map, u_options, u_days, u_btn_disabled,
                   u_interval_disabled, u_running, u_store, u_current_days, u_started>>
    /\ UNCHANGED others_ui

\* The user clears the dropdown.
ClearSelection ==
    /\ u_events >= 0
    /\ u_events < MaxEvents
    /\ u_industry # None
    /\ u_industry' = None
    /\ u_toggle_pending' = TRUE
    /\ u_fetch_pending' = TRUE
    /\ u_events' = u_events + 1
    /\ UNCHANGED <<u_file, u_memo, u_load, u_map, u_options, u_days, u_btn_disabled,
                   u_interval_disabled, u_running, u_store, u_current_days, u_started>>
    /\ UNCHANGED others_ui

\* The user clicks the refresh button, which takes clicks when enabled.
ManualRefresh ==
    /\ u_events >= 0
    /\ u_events < MaxEvents
    /\ ~u_btn_disabled
    /\ u_fetch_pending' = TRUE
    /\ u_events' = u_events + 1
    /\ UNCHANGED <<u_file, u_memo, u_load, u_map, u_options, u_industry, u_days,
                   u_btn_disabled, u_interval_disabled, u_toggle_pending, u_running,
                   u_store, u_current_days, u_started>>
    /\ UNCHANGED others_ui

\* The interval fires, which it does when enabled.
TimerTick ==
    /\ u_events >= 0
    /\ u_events < MaxEvents
    /\ ~u_interval_disabled
    /\ u_fetch_pending' = TRUE
    /\ u_events' = u_events + 1
    /\ UNCHANGED <<u_file, u_memo, u_load, u_map, u_options, u_industry, u_days,
                   u_btn_disabled, u_interval_disabled, u_toggle_pending, u_running,
                   u_store, u_current_days, u_started>>
    /\ UNCHANGED others_ui

\* The user edits days-input.
DaysChange(days) ==
    /\ u_events >= 0
    /\ u_events < MaxEvents
    /\ days # u_days
    /\ u_days' = days
    /\ u_fetch_pending' = TRUE
    /\ u_events' = u_events + 1
    /\ UNCHANGED <<u_file, u_memo, u_load, u_map, u_options, u_industry,
                   u_btn_disabled, u_interval_disabled, u_toggle_pending, u_running,
                   u_store, u_current_days, u_started>>
    /\ UNCHANGED others_ui

\* toggle_refresh_and_interval (lines 533-536)
ToggleRefreshAndInterval ==
    /\ u_events >= 0
    /\ u_toggle_pending
    /\ u_toggle_pending' = FALSE
    /\ u_btn_disabled' = (u_industry = None)
    /\ u_interval_disabled' = (u_industry = None)
    /\ UNCHANGED <<u_file, u_memo, u_load, u_map, u_options, u_industry, u_days,
                   u_fetch_pending, u_running, u_store, u_current_days, u_started,
                   u_events>>
    /\ UNCHANGED others_ui

\* fetch_industry_data is called with the inputs and the state of the moment;
\* running= sets refresh-btn.disabled to True (lines 549-551).
FetchStart ==
    /\ u_events >= 0
    /\ u_fetch_pending
    /\ ~u_running.on
    /\ u_fetch_pending' = FALSE
    /\ u_running' = [on |-> TRUE, industry |-> u_industry, days |-> u_days,
                     mapping |-> u_map]
    /\ u_btn_disabled' = TRUE
    /\ UNCHANGED <<u_file, u_memo, u_load, u_map, u_options, u_industry, u_days,
                   u_interval_disabled, u_toggle_pending, u_store, u_current_days,
                   u_started, u_events>>
    /\ UNCHANGED others_ui

\* fetch_industry_data returns (lines 556-602); running= sets
\* refresh-btn.disabled to False (lines 549-551).
FetchEnd ==
    /\ u_events >= 0
    /\ u_running.on
    /\ LET symbols == SymbolsInIndustry(u_running.mapping, u_running.industry)
       IN  IF FetchGuard(u_running.industry, u_running.mapping)
           THEN /\ u_store' = EmptyStore
                /\ u_current_days' = 10
                /\ UNCHANGED u_started
           ELSE IF symbols = {}
           THEN /\ u_store' = EmptyStore
                /\ u_current_days' = DaysComparison(u_running.days)
                /\ UNCHANGED u_started
           ELSE /\ u_store' = [key |-> u_running.industry, symbols |-> symbols]
                /\ u_current_days' = DaysComparison(u_running.days)
                /\ u_started' = TRUE
    /\ u_running' = NotRunning
    /\ u_btn_disabled' = FALSE
    /\ UNCHANGED <<u_file, u_memo, u_load, u_map, u_options, u_industry, u_days,
                   u_interval_disabled, u_toggle_pending, u_fetch_pending, u_events>>
    /\ UNCHANGED others_ui

NextUi ==
    \/ InitializeData
    \/ \E industry \in {"ALL", "IT", "BANK"} : SelectIndustry(industry)
    \/ ClearSelection
    \/ ManualRefresh
    \/ TimerTick
    \/ \E days \in DaysInputs : DaysChange(days)
    \/ ToggleRefreshAndInterval
    \/ FetchStart
    \/ FetchEnd


\* ------------------------------------------------------------------------
\* handle_sort on its own (src/aks_market.py, lines 477-478 and 614-631)
\* ------------------------------------------------------------------------
\* Columns of the header row (lines 766-783), five of the eighteen
HeaderColumns == {"SYMBOL", "INDUSTRIES", "CURRENT", "PE", "52W_HIGH"}

\* The record of the clicks, cut to the last three
Remember(trail, entry) ==
    IF Len(trail) < 3 THEN Append(trail, entry) ELSE Append(Tail(trail), entry)

\* The stores as laid out (lines 477-478)
InitClick ==
    /\ h_column = NoColumn
    /\ h_direction = "asc"
    /\ h_trail = <<>>

IdleClick ==
    /\ h_column = NoColumn
    /\ h_direction = "idle"
    /\ h_trail = <<>>

\* handle_sort (lines 614-631) for a click on the header button of a column
ClickHeader(column) ==
    /\ h_direction # "idle"
    /\ h_column' = column
    /\ h_direction' = NewDirection(column, h_column, h_direction)
    /\ h_trail' = Remember(h_trail, [click |-> column, column |-> h_column',
                                     direction |-> h_direction'])
    /\ UNCHANGED others_click

NextClick == \E column \in HeaderColumns : ClickHeader(column)


\* ------------------------------------------------------------------------
\* get_historical_comparison, one call (src/aks_market.py, lines 166-196)
\* ------------------------------------------------------------------------
\* The closes a row can have, in hundredths
ClosePrices == {0, 10000, 11000}
CloseSeries == UNION {[1..n -> ClosePrices] : n \in 0..MaxCloses}

\* series.iloc[k] for a 0-based k that counts from the end when negative
Iloc(series, k) == IF k < 0 THEN series[Len(series) + k + 1] ELSE series[k + 1]

\* (None, None, None)
NoComparison == [old_price |-> NoValue, price_change |-> NoValue, price_change_pct |-> NoRatio]

\* lines 175-193
HistoricalComparison(closes, days) ==
    IF Len(closes) < 2 THEN NoComparison
    ELSE LET current_price == Iloc(closes, 0 - 1)
             old_price == IF Len(closes) >= days THEN Iloc(closes, 0 - days)
                          ELSE Iloc(closes, 0)
             price_change == current_price - old_price
         IN  [old_price |-> Some(old_price),
              price_change |-> Some(price_change),
              price_change_pct |-> IF old_price # 0
                                   THEN Ratio(price_change * 100, old_price)
                                   ELSE NoRatio]

InitHist ==
    /\ g_closes \in CloseSeries
    /\ g_raises \in BOOLEAN
    /\ g_days \in 1..MaxDays
    /\ g_pc = "call"
    /\ g_result = NoComparison

IdleHist ==
    /\ g_closes = <<>>
    /\ g_raises = FALSE
    /\ g_days = 1
    /\ g_pc = "idle"
    /\ g_result = NoComparison

\* The call returns what it computed from the series (lines 169-193).
HistReturn ==
    /\ g_pc = "call"
    /\ ~g_raises
    /\ g_result' = HistoricalComparison(g_closes, g_days)
    /\ g_pc' = "done"
    /\ UNCHANGED <<g_closes, g_raises, g_days>>
    /\ UNCHANGED others_hist

\* tk.history raises and the handler returns (None, None, None) (lines 194-196).
HistFails ==
    /\ g_pc = "call"
    /\ g_raises
    /\ g_result' = NoComparison
    /\ g_pc' = "done"
    /\ UNCHANGED <<g_closes, g_raises, g_days>>
    /\ UNCHANGED others_hist

NextHist ==
    \/ HistReturn
    \/ HistFails


\* ------------------------------------------------------------------------
\* fetch_industry_for_symbol (src/static_data_fetcher.py, lines 18-47)
\* ------------------------------------------------------------------------
\* How a call of nse_eq(symbol) ends: it raises, returns nothing (a falsy
\* value), returns a record with an industry label, or one without any.
FetchOutcomes == {"raise", "nodata", "label", "nolabel"}

\* The label the provider has for a symbol
SymbolLabels == <<"IT", "BANK", "AUTO">>

\* line 42: the argument of time.sleep
RetrySleep(attempt) == 1 * (attempt + 1)

\* line 40
RetryRemains(attempt, max_retries) == attempt < max_retries - 1

FetchReturn(industry, calls, sleeps) == [industry |-> industry, calls |-> calls, sleeps |-> sleeps]

\* The for loop of lines 20-47 from the given attempt on; provider[k] is how
\* the k-th call of nse_eq ends.
RECURSIVE FetchIndustryFrom(_, _, _, _, _, _)
FetchIndustryFrom(symbol, provider, max_retries, attempt, calls, sleeps) ==
    IF attempt >= max_retries \/ calls >= Len(provider)
    THEN FetchReturn("N/A", calls, sleeps)
    ELSE LET o == provider[calls + 1]
         IN  CASE o = "label" -> FetchReturn(SymbolLabels[symbol], calls + 1, sleeps)
               [] o \in {"nodata", "nolabel"} -> FetchReturn("N/A", calls + 1, sleeps)
               [] OTHER ->
                    IF RetryRemains(attempt, max_retries)
                    THEN FetchIndustryFrom(symbol, provider, max_retries, attempt + 1,
                                           calls + 1, Append(sleeps, RetrySleep(attempt)))
                    ELSE FetchReturn("N/A", calls + 1, sleeps)

\* fetch_industry_for_symbol(symbol, max_retries)
FetchIndustryForSymbol(symbol, provider, max_retries) ==
    FetchIndustryFrom(symbol, provider, max_retries, 0, 0, <<>>)

NoFetch == FetchReturn("none", 0, <<>>)

InitIndustry ==
    /\ i_max \in 0..MaxFetchRetries
    /\ i_provider \in [1..MaxFetchRetries -> FetchOutcomes]
    /\ i_pc = "call"
    /\ i_result = NoFetch

IdleIndustry ==
    /\ i_max = 0
    /\ i_provider = <<>>
    /\ i_pc = "idle"
    /\ i_result = NoFetch

\* One call of fetch_industry_for_symbol, for the first symbol
IndustryCall ==
    /\ i_pc = "call"
    /\ i_result' = FetchIndustryForSymbol(1, i_provider, i_max)
    /\ i_pc' = "done"
    /\ UNCHANGED <<i_max, i_provider>>
    /\ UNCHANGED others_industry

NextIndustry == IndustryCall

\* ------------------------------------------------------------------------
\* load_and_enrich_tickers (src/static_data_fetcher.py, lines 50-131)
\* ------------------------------------------------------------------------
\* max_retries of the call of line 93 (the default of line 18)
DefaultMaxRetries == 3

\* line 102
CooldownEvery == 10

\* A ticker: a symbol with or without the prefix "NSE:"
Ticker(prefixed, symbol) == [prefixed |-> prefixed, symbol |-> symbol]
Tickers == {Ticker(TRUE, 1), Ticker(FALSE, 1), Ticker(TRUE, 2), Ticker(TRUE, 3)}
TickerLists == UNION {[1..n -> Tickers] : n \in 0..MaxTickers}

\* line 81: the ticker without "NSE:"
StripPrefix(ticker) == ticker.symbol

\* line 82: unique(), the distinct values in the order of their first occurrence
RECURSIVE Unique(_)
Unique(seq) ==
    IF seq = <<>> THEN <<>>
    ELSE LET init == Unique(SubSeq(seq, 1, Len(seq) - 1))
             last == seq[Len(seq)]
         IN  IF \E k \in 1..Len(init) : init[k] = last THEN init ELSE Append(init, last)

\* The ways the provider treats a symbol in the job
ProviderBehaviours ==
    { <<"label", "label", "label">>, <<"raise", "raise", "raise">>,
      <<"raise", "nolabel", "label">> }

\* lines 95-99
ResultRow(symbol, industry) == [ticker |-> Ticker(TRUE, symbol), symbol |-> symbol, industry |-> industry]

\* lines 107-115: DataFrame([]) has no column "industry", and
\* result_df['industry'] raises KeyError
SummaryRaises(results) == results = <<>>

NotSaved == [written |-> FALSE, rows |-> <<>>]
Saved(rows) == [written |-> TRUE, rows |-> rows]

InitEnrich ==
    /\ e_input \in {"ok", "missing", "nocolumn"}
    /\ e_tickers \in IF e_input = "ok" THEN TickerLists ELSE {<<>>}
    /\ e_provider \in [1..3 -> ProviderBehaviours]
    /\ e_disk \in {"ok", "fails"}
    /\ e_pc = "load"
    /\ e_symbols = <<>>
    /\ e_i = 0
    /\ e_results = <<>>
    /\ e_calls = [k \in 1..3 |-> 0]
    /\ e_cooldowns = 0
    /\ e_saved = NotSaved

IdleEnrich ==
    /\ e_input = "ok"
    /\ e_tickers = <<>>
    /\ e_provider = <<>>
    /\ e_disk = "ok"
    /\ e_pc = "idle"
    /\ e_symbols = <<>>
    /\ e_i = 0
    /\ e_results = <<>>
    /\ e_calls = [k \in 1..3 |-> 0]
    /\ e_cooldowns = 0
    /\ e_saved = NotSaved

\* lines 66-82: the input is read and the symbols are taken from it.
EnrichLoad ==
    /\ e_pc = "load"
    /\ e_input = "ok"
    /\ e_symbols' = Unique([k \in 1..Len(e_tickers) |-> StripPrefix(e_tickers[k])])
    /\ e_pc' = "loop"
    /\ UNCHANGED <<e_input, e_tickers, e_provider, e_disk, e_i, e_results, e_calls,
                   e_cooldowns, e_saved>>
    /\ UNCHANGED others_enrich

\* lines 69-79: no input file, or no ticker column: the job returns.
EnrichLoadFails ==
    /\ e_pc = "load"
    /\ e_input # "ok"
    /\ e_pc' = "returned"
    /\ UNCHANGED <<e_input, e_tickers, e_provider, e_disk, e_symbols, e_i, e_results,
                   e_calls, e_cooldowns, e_saved>>
    /\ UNCHANGED others_enrich

\* One iteration of the loop of lines 90-104
EnrichSymbol ==
    /\ e_pc = "loop"
    /\ e_i < Len(e_symbols)
    /\ LET symbol == e_symbols[e_i + 1]
           fetched == FetchIndustryForSymbol(symbol, e_provider[symbol], DefaultMaxRetries)
       IN  /\ e_results' = Append(e_results, ResultRow(symbol, fetched.industry))
           /\ e_calls' = [e_calls EXCEPT ![symbol] = @ + fetched.calls]
    /\ e_i' = e_i + 1
    /\ e_cooldowns' = IF (e_i + 1) % CooldownEvery = 0 THEN e_cooldowns + 1 ELSE e_cooldowns
    /\ UNCHANGED <<e_input, e_tickers, e_provider, e_disk, e_pc, e_symbols, e_saved>>
    /\ UNCHANGED others_enrich

\* lines 107-122: the data frame and the summary
EnrichSummary ==
    /\ e_pc = "loop"
    /\ e_i >= Len(e_symbols)
    /\ e_pc' = IF SummaryRaises(e_results) THEN "raised" ELSE "save"
    /\ UNCHANGED <<e_input, e_tickers, e_provider, e_disk, e_symbols, e_i, e_results,
                   e_calls, e_cooldowns, e_saved>>
    /\ UNCHANGED others_enrich

\* lines 125-131: to_csv writes the file, or raises and the error is printed
EnrichSave ==
    /\ e_pc = "save"
    /\ e_saved' = IF e_disk = "ok" THEN Saved(e_results) ELSE e_saved
    /\ e_pc' = "returned"
    /\ UNCHANGED <<e_input, e_tickers, e_provider, e_disk, e_symbols, e_i, e_results,
                   e_calls, e_cooldowns>>
    /\ UNCHANGED others_enrich

NextEnrich ==
    \/ EnrichLoad
    \/ EnrichLoadFails
    \/ EnrichSymbol
    \/ EnrichSummary
    \/ EnrichSave

\* ------------------------------------------------------------------------
\* Specifications: one per machine, the other machines idle
\* ------------------------------------------------------------------------
RetryInit == InitRetry /\ IdleBatch /\ IdleSort /\ IdleFund /\ IdleVol /\
    IdleFloat /\ IdleCache /\ IdleUi /\ IdleClick /\ IdleHist /\
    IdleIndustry /\ IdleEnrich

SpecRetry == RetryInit /\ [][NextRetry]_vars

BatchInit == InitBatch /\ IdleRetry /\ IdleSort /\ IdleFund /\ IdleVol /\
    IdleFloat /\ IdleCache /\ IdleUi /\ IdleClick /\ IdleHist /\
    IdleIndustry /\ IdleEnrich

SpecBatch == BatchInit /\ [][NextBatch]_vars

SortInit == InitSort /\ IdleRetry /\ IdleBatch /\ IdleFund /\ IdleVol /\
    IdleFloat /\ IdleCache /\ IdleUi /\ IdleClick /\ IdleHist /\
    IdleIndustry /\ IdleEnrich

SpecSort == SortInit /\ [][NextSort]_vars

FundInit == InitFund /\ IdleRetry /\ IdleBatch /\ IdleSort /\ IdleVol /\
    IdleFloat /\ IdleCache /\ IdleUi /\ IdleClick /\ IdleHist /\
    IdleIndustry /\ IdleEnrich

SpecFund == FundInit /\ [][NextFund]_vars

VolInit == InitVol /\ IdleRetry /\ IdleBatch /\ IdleSort /\ IdleFund /\
    IdleFloat /\ IdleCache /\ IdleUi /\ IdleClick /\ IdleHist /\
    IdleIndustry /\ IdleEnrich

SpecVol == VolInit /\ [][NextVol]_vars

FloatInit == InitFloat /\ IdleRetry /\ IdleBatch /\ IdleSort /\ IdleFund /\
    IdleVol /\ IdleCache /\ IdleUi /\ IdleClick /\ IdleHist /\
    IdleIndustry /\ IdleEnrich

SpecFloat == FloatInit /\ [][NextFloat]_vars

CacheInit == InitCache /\ IdleRetry /\ IdleBatch /\ IdleSort /\ IdleFund /\
    IdleVol /\ IdleFloat /\ IdleUi /\ IdleClick /\ IdleHist /\
    IdleIndustry /\ IdleEnrich

SpecCache == CacheInit /\ [][NextCache]_vars

UiInit == InitUi /\ IdleRetry /\ IdleBatch /\ IdleSort /\ IdleFund /\
    IdleVol /\ IdleFloat /\ IdleCache /\ IdleClick /\ IdleHist /\
    IdleIndustry /\ IdleEnrich

SpecUi == UiInit /\ [][NextUi]_vars

ClickInit == InitClick /\ IdleRetry /\ IdleBatch /\ IdleSort /\ IdleFund /\
    IdleVol /\ IdleFloat /\ IdleCache /\ IdleUi /\ IdleHist /\
    IdleIndustry /\ IdleEnrich

SpecClick == ClickInit /\ [][NextClick]_vars

HistInit == InitHist /\ IdleRetry /\ IdleBatch /\ IdleSort /\ IdleFund /\
    IdleVol /\ IdleFloat /\ IdleCache /\ IdleUi /\ IdleClick /\
    IdleIndustry /\ IdleEnrich

SpecHist == HistInit /\ [][NextHist]_vars

IndustryInit == InitIndustry /\ IdleRetry /\ IdleBatch /\ IdleSort /\
    IdleFund /\ IdleVol /\ IdleFloat /\ IdleCache /\ IdleUi /\ IdleClick /\
    IdleHist /\ IdleEnrich

SpecIndustry == IndustryInit /\ [][NextIndustry]_vars

EnrichInit == InitEnrich /\ IdleRetry /\ IdleBatch /\ IdleSort /\ IdleFund /\
    IdleVol /\ IdleFloat /\ IdleCache /\ IdleUi /\ IdleClick /\ IdleHist /\
    IdleIndustry

SpecEnrich == EnrichInit /\ [][NextEnrich]_vars

\* ------------------------------------------------------------------------
\* Claims about retry_with_backoff
\* ------------------------------------------------------------------------
RetryDone == r_pc = "done"

\* The four indicators the specification lists, and the three of line 49,
\* written out independently of IsRateLimitError.
SpecIndicators == {<<"r","a","t","e">>, <<"4","2","9">>,
                   <<"e","x","p","e","c","t","i","n","g"," ","v","a","l","u","e">>,
                   <<"d","e","l","i","s","t","e","d">>}
CodeIndicators == {<<"r","a","t","e">>, <<"4","2","9">>,
                   <<"e","x","p","e","c","t","i","n","g"," ","v","a","l","u","e">>}

MatchesIgnoringCase(msg, indicators) ==
    \E ind \in indicators : \E k \in 0..(Len(msg) - Len(ind)) :
        \A j \in 1..Len(ind) : LowerChar(msg[k + j]) = ind[j]

RaisesRateLimit(o) == o.kind = "exc" /\ MatchesIgnoringCase(o.msg, CodeIndicators)

\* The callable raises a rate-limit-shaped error exactly K times, then succeeds.
FailsThenSucceeds(K) ==
    /\ K < MaxRetries
    /\ \A i \in 1..K : RaisesRateLimit(r_func[i])
    /\ r_func[K + 1].kind = "ok"

\* The callable raises a rate-limit-shaped error on each of its first K calls.
FailsAtLeast(K) == \A i \in 1..K : RaisesRateLimit(r_func[i])

StrictlyIncreasing(seq) == \A i \in 1..(Len(seq) - 1) : seq[i] < seq[i + 1]

RetryContract ==
    /\ \A K \in 0..(MaxRetries - 1) :
          (FailsThenSucceeds(K) /\ r_max > K) =>
              /\ r_end = "returned"
              /\ r_value = r_func[K + 1].val
              /\ Len(r_sleeps) = K
              /\ StrictlyIncreasing(r_sleeps)
    /\ \A K \in 0..MaxRetries :
          (FailsAtLeast(K) /\ r_max <= K) =>
              /\ r_end = "returned"
              /\ r_value = None

\* C1 as stated: K rate-limit errors then success gives the success value after
\* K sleeps with strictly increasing delays when max_retries > K, and None
\* when max_retries <= K (whatever base_delay is).
C1_Original == RetryDone => RetryContract

\* C1, amended: the same for every base_delay > 0.
C1_RetryThenSucceed == (RetryDone /\ r_base > 0) => RetryContract

C1_Witness ==
    /\ RetryDone
    /\ r_base > 0
    /\ r_max = 3
    /\ FailsThenSucceeds(2)
    /\ r_value = "quote"
    /\ r_sleeps = <<r_base, 2 * r_base>>

NotRetriedContract ==
    (r_func[1].kind = "exc" /\ ~MatchesIgnoringCase(r_func[1].msg, SpecIndicators)) =>
        /\ r_end = "returned"
        /\ r_value = None
        /\ r_calls = 1
        /\ r_sleeps = <<>>

\* C2 as stated: a callable raising an error that matches no indicator gives
\* None after exactly one invocation and no sleep, whatever max_retries is.
C2_Original == RetryDone => NotRetriedContract

\* C2, amended: the same for every max_retries >= 1 (with max_retries <= 0 the
\* callable is not invoked at all).
C2_OtherErrorOnce == (RetryDone /\ r_max >= 1) => NotRetriedContract

C2_Witness ==
    /\ RetryDone
    /\ r_max = 3
    /\ r_func[1] = ExcOutcome(MsgTimeout)
    /\ r_calls = 1
    /\ r_value = None

NoPropagation ==
    /\ r_end = "returned"
    /\ \/ r_value = None
       \/ /\ r_calls >= 1
          /\ r_func[r_calls].kind = "ok"
          /\ r_value = r_func[r_calls].val
    /\ (r_calls = r_max /\ \A i \in 1..r_calls : r_func[i].kind = "exc") => r_value = None

\* C3 as stated: for every callable, max_retries and base_delay the call ends by
\* returning the callable's value or None, and None when the attempts are
\* exhausted; no exception leaves it.
C3_Original == RetryDone => NoPropagation

\* C3, amended: the same for every base_delay >= 0.
C3_NeverPropagates == (RetryDone /\ r_base >= 0) => NoPropagation

C3_Witness ==
    /\ RetryDone
    /\ r_base >= 0
    /\ r_max = 3
    /\ r_calls = 3
    /\ \A i \in 1..3 : RaisesRateLimit(r_func[i])
    /\ r_end = "returned"
    /\ r_value = None

\* Every exception the callable raised in this call: one that matches an
\* indicator is followed by another invocation while attempts remain, and one
\* that matches none is the last invocation.
ClassifiedBy(indicators) ==
    \A i \in 1..r_calls :
        r_func[i].kind = "exc" =>
            /\ (MatchesIgnoringCase(r_func[i].msg, indicators) /\ i < r_max) => r_calls > i
            /\ ~MatchesIgnoringCase(r_func[i].msg, indicators) => r_calls = i

\* C4 as stated: the indicator set is "rate", "429", "expecting value",
\* "delisted" (read for the calls in which no sleep raises).
C4_Original == (RetryDone /\ r_base >= 0) => ClassifiedBy(SpecIndicators)

\* C4, amended: the indicator set is "rate", "429", "expecting value"; an error
\* whose message only contains "delisted" is not retried (for base_delay >= 0).
C4_Classification == (RetryDone /\ r_base >= 0) => ClassifiedBy(CodeIndicators)

C4_Witness ==
    /\ RetryDone
    /\ r_base >= 0
    /\ r_max = 3
    /\ r_func[1] = ExcOutcome(MsgRateLimited)
    /\ r_func[2] = ExcOutcome(MsgDelisted)
    /\ r_calls = 2
    /\ r_value = None


\* ------------------------------------------------------------------------
\* Claims about fetch_stocks_data_for_industry
\* ------------------------------------------------------------------------
BatchDone == b_pc = "done"

RECURSIVE Flatten(_)
Flatten(seqs) == IF seqs = <<>> THEN <<>> ELSE Head(seqs) \o Flatten(Tail(seqs))

\* ceil(n / b)
CeilDiv(n, b) == (n + b - 1) \div b

\* The k-th contiguous slice of b symbols of the input
ExpectedBatch(k) ==
    LET first == (k - 1) * b_batch_size
        size == IF Len(b_symbols) - first < b_batch_size
                THEN Len(b_symbols) - first ELSE b_batch_size
    IN  [j \in 1..size |-> b_symbols[first + j]]

\* The rows of symbol s in the output
RowsOf(s) == {k \in 1..Len(b_all_data) : b_all_data[k].SYMBOL = s}

\* How often the fetch of symbol s has ended
TimesFetched(s) == Cardinality({k \in 1..Len(b_finished) : b_finished[k] = s})

\* The composite fetch of s gave a row: its fundamentals were there and nothing raised.
GaveRow(s) == b_stage[s].fund = "ok" /\ ~b_stage[s].exc

AnyStageFailed(s) ==
    \/ b_stage[s].fund # "ok"
    \/ b_stage[s].vol # "ok"
    \/ b_stage[s].hist # "ok"
    \/ b_stage[s].exc

\* C6 as stated: a symbol whose composite fetch fails at any stage
\* (fundamentals, volume statistics, historical comparison) has no row in the
\* output and is fetched only once.
C6_Original ==
    BatchDone =>
        \A s \in Range(b_symbols) :
            AnyStageFailed(s) => (RowsOf(s) = {} /\ TimesFetched(s) = 1)

\* C6, amended: a symbol whose fundamentals are absent, or whose _fetch_one
\* raises, has no row and is fetched only once; a symbol whose volume statistics
\* or historical comparison fails keeps its one row, with the fields of the
\* failed stage absent, and is fetched only once too.  The output holds no
\* absent entry.
C6_DroppedOnFundamentals ==
    BatchDone =>
        /\ \A k \in 1..Len(b_all_data) : b_all_data[k] # NoRow
        /\ \A s \in Range(b_symbols) :
              /\ TimesFetched(s) = 1
              /\ b_submits[s] = 1
              /\ (b_stage[s].fund # "ok" \/ b_stage[s].exc) => RowsOf(s) = {}
              /\ (b_stage[s].fund = "ok" /\ ~b_stage[s].exc) =>
                    /\ Cardinality(RowsOf(s)) = 1
                    /\ \A k \in RowsOf(s) :
                          /\ (b_all_data[k].TODAY_VOLUME = None) <=> (b_stage[s].vol # "ok")
                          /\ (b_all_data[k].HISTORICAL_PRICE = None) <=> (b_stage[s].hist # "ok")

C6_Witness ==
    /\ BatchDone
    /\ Len(b_symbols) = 3
    /\ b_stage[1].fund = "absent"
    /\ RowsOf(1) = {}
    /\ b_stage[2].vol = "absent"
    /\ \E k \in RowsOf(2) : b_all_data[k].TODAY_VOLUME = None
    /\ b_stage[3].hist = "absent"
    /\ \E k \in RowsOf(3) : b_all_data[k].HISTORICAL_PRICE = None


\* ------------------------------------------------------------------------
\* Claims about the table sort of generate_table
\* ------------------------------------------------------------------------
\* A table sorted by a column is on screen.
SortedTableShown ==
    ~s_pending /\ ~s_error /\ s_column \in SortColumns /\ s_table # <<>>

\* The sort key's field of the row at place p of the table
Shown(p) == s_table[p][IF s_column = "52W_HIGH" THEN "52WEEK_HIGH" ELSE s_column]

\* The place the row at place p of the table had in the loaded rows
OriginalPlace(p) == s_table[p].SYMBOL.v

SameRowsAsLoaded ==
    /\ Len(s_table) = Len(s_stocks)
    /\ \A k \in 1..Len(s_stocks) : \E p \in 1..Len(s_table) : s_table[p] = s_stocks[k]

\* C7 as stated: in both directions the rows whose sort-key value is None come
\* after all rows with a value, and the values are in the numeric order of the
\* direction.
C7_Original ==
    SortedTableShown =>
        /\ SameRowsAsLoaded
        /\ \A p, q \in 1..Len(s_table) :
              p < q =>
                  /\ Shown(p).isNone => Shown(q).isNone
                  /\ (~Shown(p).isNone /\ ~Shown(q).isNone) =>
                        IF s_direction = "desc"
                        THEN Shown(p).v >= Shown(q).v
                        ELSE Shown(p).v <= Shown(q).v

\* C8: the sort is stable in both directions: two rows that tie on the sort key
\* (equal values, or both None) keep their original relative order.
C8_StableSort ==
    SortedTableShown =>
        /\ SameRowsAsLoaded
        /\ \A p, q \in 1..Len(s_table) :
              (p < q /\ Shown(p) = Shown(q)) => OriginalPlace(p) < OriginalPlace(q)

C8_Witness ==
    /\ SortedTableShown
    /\ s_column = "PE"
    /\ s_direction = "desc"
    /\ Len(s_stocks) = 4
    /\ s_stocks[1].PE = Some(1)
    /\ s_stocks[2].PE = NoValue
    /\ s_stocks[3].PE = Some(1)
    /\ s_stocks[4].PE = NoValue
    /\ \E p, q \in 1..4 : p < q /\ OriginalPlace(p) = 1 /\ OriginalPlace(q) = 3
    /\ \E p, q \in 1..4 : p < q /\ OriginalPlace(p) = 2 /\ OriginalPlace(q) = 4


\* ------------------------------------------------------------------------
\* Claims about get_fundamentals
\* ------------------------------------------------------------------------
\* get_fundamentals returned a record.
FundReturned == f_pc = "done" /\ ~f_isNone

\* The number each provider field of the model stands for, written out.
ExpectedNumber(raw) ==
    CASE raw = RawNone -> NoValue
      [] raw.t = "num" -> Some(raw.n)
      [] raw = Str(<<"0">>) -> Some(0)
      [] raw = Str(<<"1", "2", ".", "5", "0">>) -> Some(1250)
      [] raw = Str(<<"1", ",", "0", "0", "0">>) -> Some(100000)
      [] OTHER -> NoValue

\* A field that is missing, None or the number 0 gives way to the next one.
GivesWay(raw) == raw = RawNone \/ raw = Num(0)

ExpectedPE ==
    IF GivesWay(f_data.pdSymbolPe) THEN ExpectedNumber(f_data.pdSectorPe)
    ELSE ExpectedNumber(f_data.pdSymbolPe)

ExpectedLastPrice ==
    IF GivesWay(f_data.lastPrice) THEN ExpectedNumber(f_data.close)
    ELSE ExpectedNumber(f_data.lastPrice)

ExpectedIssued ==
    IF ~GivesWay(f_data.issuedSize) THEN ExpectedNumber(f_data.issuedSize)
    ELSE IF ~GivesWay(f_data.issuedShares) THEN ExpectedNumber(f_data.issuedShares)
    ELSE ExpectedNumber(f_data.issuedCapital)

Abs(x) == IF x < 0 THEN 0 - x ELSE x

PeAndPricePresent ==
    /\ ~f_fund.PE.isNone
    /\ f_fund.PE.v # 0
    /\ ~f_fund.lastPrice.isNone

\* C9 as stated: P/E = 0 gives EPS None whatever the price is; a non-zero P/E
\* and a present last price give EPS = lastPrice / PE.  (P/E is pdSymbolPe,
\* falling back to pdSectorPe.)
C9_Original ==
    FundReturned =>
        /\ f_fund.PE = ExpectedPE
        /\ f_fund.PE = Some(0) => f_fund.EPS = NoValue
        /\ PeAndPricePresent =>
              /\ ~f_fund.EPS.isNone
              /\ f_fund.EPS.v * f_fund.PE.v = 100 * f_fund.lastPrice.v

\* C9, amended: the same, with EPS = lastPrice / PE rounded to two decimals (the
\* hundredth nearest to the quotient).
C9_EpsDerivation ==
    FundReturned =>
        /\ f_fund.PE = ExpectedPE
        /\ f_fund.PE = Some(0) => f_fund.EPS = NoValue
        /\ PeAndPricePresent =>
              /\ ~f_fund.EPS.isNone
              /\ 2 * Abs(f_fund.EPS.v * f_fund.PE.v - 100 * f_fund.lastPrice.v)
                    <= Abs(f_fund.PE.v)

C9_Witness ==
    /\ FundReturned
    /\ f_data.pdSymbolPe = Str(StrZero)
    /\ f_data.pdSectorPe = Num(600)
    /\ f_data.lastPrice = Num(1055)
    /\ f_fund.PE = Some(0)
    /\ f_fund.lastPrice = Some(1055)
    /\ f_fund.EPS = NoValue

IssuedOrPriceAbsent == ExpectedIssued.isNone \/ f_fund.lastPrice.isNone

\* C10 as stated: without issued shares, or without a last price, the market
\* cap is None and the call on a quote dict still returns its record; with
\* both, the market cap equals issued shares times last price.
C10_Original ==
    /\ (f_pc = "done" /\ f_data.kind = "dict") => ~f_isNone
    /\ FundReturned =>
          /\ f_fund.lastPrice = ExpectedLastPrice
          /\ IssuedOrPriceAbsent => f_fund.MarketCap = NoValue
          /\ ~IssuedOrPriceAbsent =>
                /\ ~f_fund.MarketCap.isNone
                /\ 100 * f_fund.MarketCap.v = ExpectedIssued.v * f_fund.lastPrice.v

\* C10, amended: the same, with the market cap equal to issued shares times
\* last price rounded to two decimals (the hundredth nearest to the product).
C10_MarketCap ==
    /\ (f_pc = "done" /\ f_data.kind = "dict") => ~f_isNone
    /\ FundReturned =>
          /\ f_fund.lastPrice = ExpectedLastPrice
          /\ IssuedOrPriceAbsent => f_fund.MarketCap = NoValue
          /\ ~IssuedOrPriceAbsent =>
                /\ ~f_fund.MarketCap.isNone
                /\ 2 * Abs(100 * f_fund.MarketCap.v
                           - ExpectedIssued.v * f_fund.lastPrice.v) <= 100

\* 1.12 shares at 10.55 are worth 11.816, returned as 11.82.
C10_Witness ==
    /\ FundReturned
    /\ f_data.issuedSize = Num(112)
    /\ f_data.lastPrice = Num(1055)
    /\ f_fund.lastPrice = Some(1055)
    /\ f_fund.MarketCap = Some(1182)

\* Without issued shares the market cap is None.
C10_AbsentReached ==
    /\ FundReturned
    /\ ExpectedIssued.isNone
    /\ ~f_fund.lastPrice.isNone
    /\ f_fund.MarketCap = NoValue

\* ------------------------------------------------------------------------
\* Claims about get_volume_stats
\* ------------------------------------------------------------------------
VolDone == v_pc = "done"

\* The history calls reached their try blocks.
VolFetched == VolDone /\ v_ticker = "ok"

DailyTried == \E k \in 1..Len(v_calls) : v_calls[k] = "1d"

\* C11 as stated (an attempt fails when its call raises): today's volume comes
\* from the intraday series, from the daily series when the intraday attempt
\* fails, and when both fail all three fields are None.
C11_Original ==
    VolFetched =>
        /\ v_h1m.kind = "ok" => v_stats.todays_volume = Some(v_h1m.vol)
        /\ (v_h1m.kind = "raise" /\ v_h1d.kind = "ok") =>
              v_stats.todays_volume = Some(v_h1d.vol)
        /\ (v_h1m.kind = "raise" /\ v_h1d.kind = "raise") =>
              /\ v_stats.avg_volume = NoValue
              /\ v_stats.todays_volume = NoValue
              /\ v_stats.volume_change_pct = NoRatio

\* C11, amended: the daily series is tried exactly when the intraday call
\* raises (an intraday frame without volume data leaves today's volume None);
\* when both attempts fail today's volume and the change are None, and the
\* average is whatever the 30-day series gave; all three fields are None when
\* the fetch as a whole fails.
C11_VolumeFallback ==
    /\ (VolDone /\ v_ticker = "raise") => (v_stats = NoStats /\ v_calls = <<>>)
    /\ VolFetched =>
          /\ v_h1m.kind = "ok" =>
                (~DailyTried /\ v_stats.todays_volume = Some(v_h1m.vol))
          /\ v_h1m.kind = "novolume" =>
                (~DailyTried /\ v_stats.todays_volume = NoValue)
          /\ v_h1m.kind = "raise" =>
                /\ v_calls = <<"30d", "1m", "1d">>
                /\ v_h1d.kind = "ok" => v_stats.todays_volume = Some(v_h1d.vol)
                /\ v_h1d.kind # "ok" =>
                      /\ v_stats.todays_volume = NoValue
                      /\ v_stats.volume_change_pct = NoRatio
          /\ v_h30.kind = "ok" => v_stats.avg_volume = Some(v_h30.vol)
          /\ v_h30.kind # "ok" => v_stats.avg_volume = NoValue

C11_Witness ==
    /\ VolFetched
    /\ v_h30 = HistOk(100)
    /\ v_h1m = HistRaise
    /\ v_h1d = HistRaise
    /\ v_calls = <<"30d", "1m", "1d">>
    /\ v_stats = VolStats(Some(100), NoValue, NoRatio)

\* The fallback gives today's volume.
C11_FallbackReached ==
    /\ VolFetched
    /\ v_h1m = HistRaise
    /\ v_h1d = HistOk(120)
    /\ v_stats.todays_volume = Some(120)

\* ------------------------------------------------------------------------
\* Claims about safe_float
\* ------------------------------------------------------------------------
FloatDone == sf_pc = "done"

\* The argument is the string text with whitespace around it.
IsPadded(text) == sf_v.t = "str" /\ sf_v.s \in Padded(text)

\* The decimal numerals of the model and the numbers they denote, in hundredths
NumeralValues ==
    {<<(<<"0">>), 0>>, <<(<<"7">>), 700>>, <<(<<"1", "2", ".", "5", "0">>), 1250>>,
     <<(<<"-", "5">>), 0 - 500>>, <<(<<"+", "5">>), 500>>, <<(<<".", "5">>), 50>>,
     <<(<<"5", ".">>), 500>>, <<(<<"0", "0", "7">>), 700>>,
     <<(<<"1", ",", "0", "0", "0">>), 100000>>,
     <<(<<"1", ",", "2", "3", "4", ".", "5">>), 123450>>,
     <<(<<"-", "2", ",", "5", "0", "0">>), 0 - 250000>>}

\* What the rules common to the claim and to its amended form require
FloatCommonRules ==
    /\ sf_v = RawNone => sf_result = NoValue
    /\ sf_v.t = "num" => sf_result = Some(sf_v.n)
    /\ \A text \in BlankTexts \cup NaTexts \cup WordTexts :
          IsPadded(text) => sf_result = NoValue
    /\ \A nv \in NumeralValues : IsPadded(nv[1]) => sf_result = Some(nv[2])
    /\ sf_v.t = "other" => sf_result \in {NoValue, Some(250)}

\* C12 as stated: safe_float returns for every input; None for every
\* non-numeric, blank or "NA"-variant input (any case, whitespace around it);
\* the exact number for every number and every numeric string, thousands
\* separators removed.
C12_Original ==
    FloatDone =>
        /\ FloatCommonRules
        /\ \A text \in SpecialTexts : IsPadded(text) => sf_result = NoValue
        /\ sf_v = Huge => sf_result # NoValue

\* C12, amended: as stated, except that the strings float() reads as nan or as
\* infinity give those floats, not None, and an int beyond the float range
\* gives None; commas are removed wherever they stand.
C12_SafeFloat ==
    FloatDone =>
        /\ FloatCommonRules
        /\ sf_v = Huge => sf_result = NoValue
        /\ \A text \in {<<"n", "a", "n">>, <<"N", "a", "N">>} :
              IsPadded(text) => sf_result = NaN
        /\ \A text \in {<<"i", "n", "f">>, <<"I", "n", "f", "i", "n", "i", "t", "y">>} :
              IsPadded(text) => sf_result = Inf(1)
        /\ IsPadded(<<"-", "i", "n", "f">>) => sf_result = Inf(0 - 1)
        /\ IsPadded(<<"1", ",", "5">>) => sf_result = Some(1500)
        /\ IsPadded(<<",", "5">>) => sf_result = Some(500)
        /\ IsPadded(<<",">>) => sf_result = NoValue
        /\ sf_v = Other(<<"2", ".", "5">>) => sf_result = Some(250)
        /\ sf_v \in {Other(<<"[", "1", "]">>), Other(<<"{", "}">>)} =>
              sf_result = NoValue

C12_Witness ==
    /\ FloatDone
    /\ sf_v = Str(<<" ", "1", ",", "2", "3", "4", ".", "5", "\t">>)
    /\ sf_result = Some(123450)

\* An "NA" variant with whitespace around it gives None.
C12_NaReached ==
    /\ FloatDone
    /\ sf_v = Str(<<"\t", "n", "A", " ">>)
    /\ sf_result = NoValue

\* The string "nan" gives the float nan.
C12_NanReached ==
    /\ FloatDone
    /\ sf_v = Str(<<"n", "a", "n">>)
    /\ sf_result = NaN

\* ------------------------------------------------------------------------
\* Claims about errors at the rendering boundary
\* ------------------------------------------------------------------------
\* C13 as stated, for generate_table: whatever the rows hold and whichever
\* header is clicked, generate_table finishes without an uncaught exception.
C13_Original == ~s_error

\* ------------------------------------------------------------------------
\* Claims about the memoized accessors
\* ------------------------------------------------------------------------
\* The last call was get_fundamentals and it returned fundamentals.
FundServed == c_log.fn = "fund" /\ ~c_log.isNone

\* C14 as stated: a get_fundamentals call made once the quote has expired does
\* not return fundamentals derived from that quote: what it returns is derived
\* from a quote that has not expired at the time of the call.
C14_Original == FundServed => c_log.at < c_log.version + NseExpire

\* C14, amended: get_fundamentals keeps its own entry for 30 minutes from the
\* time it computed it and serves it whatever became of the quote entry; it
\* recomputes exactly when its own entry is missing or expired, and then from a
\* quote whose entry has not expired.
C14_FundOwnExpiry ==
    FundServed =>
        /\ c_log.hit <=> (c_log.prior >= 0 /\ c_log.at < c_log.prior + FundExpire)
        /\ c_log.hit => c_log.stored = c_log.prior
        /\ ~c_log.hit => c_log.stored = c_log.at
        /\ c_log.version <= c_log.stored
        /\ c_log.stored < c_log.version + NseExpire

\* Fundamentals computed at time 1 from the quote of time 0 are served at
\* time 2, when that quote has expired.
C14_Witness ==
    /\ FundServed
    /\ c_log.hit
    /\ c_log.version = 0
    /\ c_log.stored = 1
    /\ c_log.at = 2
    /\ ~IsCached(c_nse, c_now)

ExpireOf(fn) ==
    CASE fn = "nse" -> NseExpire
      [] fn = "fund" -> FundExpire
      [] OTHER -> HistExpire

\* C19 as stated: once an accessor has stored an absent result for the symbol,
\* every call of it for the symbol within the expiry window returns absent
\* without invoking the provider.
C19_Original ==
    (/\ c_log.fn # "none"
     /\ c_log.symbol_failed >= 0
     /\ c_log.at < c_log.symbol_failed + ExpireOf(c_log.fn))
        => (~c_log.invoked /\ c_log.isNone)

\* C19, amended: the same for calls with the same arguments; a call of
\* get_historical_comparison with another days value has an entry of its own
\* and invokes the provider when that entry is missing or expired.
C19_CachedFailures ==
    /\ (/\ c_log.fn # "none"
        /\ c_log.prior_none
        /\ c_log.at < c_log.prior + ExpireOf(c_log.fn))
           => (c_log.hit /\ ~c_log.invoked /\ c_log.isNone)
    /\ (/\ c_log.fn \in {"nse", "hist"}
        /\ ~(c_log.prior >= 0 /\ c_log.at < c_log.prior + ExpireOf(c_log.fn)))
           => c_log.invoked

\* A failed get_fundamentals is served from the cache one time unit later.
C19_Witness ==
    /\ c_log.fn = "fund"
    /\ c_log.prior_none
    /\ c_log.prior = 0
    /\ c_log.at = 1
    /\ c_log.hit
    /\ ~c_log.invoked
    /\ c_log.isNone

\* After a failure with days = 10 a call with days = 50 invokes the provider.
C19_DaysChangeReached ==
    /\ c_log.fn = "hist"
    /\ c_log.days = 50
    /\ c_log.symbol_failed >= 0
    /\ c_log.at < c_log.symbol_failed + HistExpire
    /\ c_log.invoked

\* ------------------------------------------------------------------------
\* Claims about the page
\* ------------------------------------------------------------------------
\* No callback is due or in progress.
Quiescent == ~u_toggle_pending /\ ~u_fetch_pending /\ ~u_running.on

\* The page shows no data.
NoDataState ==
    /\ u_map = {}
    /\ u_options = {}
    /\ u_industry = None
    /\ u_store = EmptyStore
    /\ ~u_started

\* C15 as stated: with the static file missing, initialize_data yields an
\* empty mapping and no options, no orchestrator fetch is ever started and the
\* page stays in its no-data state.
C15_Original == (u_file = "missing" /\ u_load # "pending") => NoDataState

\* C15, amended: with the file missing, load_symbols_with_industries returns
\* its memoized mapping if the cache holds one and {} otherwise, never raising;
\* whenever initialize_data got {}, and as long as it has not run, the page is
\* in its no-data state and no event starts an orchestrator fetch.
C15_MissingFile ==
    /\ (u_file = "missing" /\ u_load # "pending") =>
          /\ u_load \in {"cached", "missing"}
          /\ u_load = "missing" => u_map = {}
          /\ u_load = "cached" => u_map = u_memo.value
    /\ u_map = {} => NoDataState

\* The file is missing, nothing is memoized, and a fetch_industry_data call
\* caused by a later event has returned.
C15_Witness ==
    /\ u_file = "missing"
    /\ u_load = "missing"
    /\ u_events >= 1
    /\ Quiescent
    /\ NoDataState

\* The file is missing and the memoized mapping has been fetched for.
C15_WarmCacheReached ==
    /\ u_file = "missing"
    /\ u_load = "cached"
    /\ u_started

\* C20 as stated: when no callback is due or running and no industry is
\* selected, the refresh button and the interval are both disabled.
C20_Original ==
    (Quiescent /\ u_industry = None) => (u_btn_disabled /\ u_interval_disabled)

\* The interval alone keeps to it: when toggle_refresh_and_interval is not
\* due, the interval is disabled exactly when no industry is selected.
C20_IntervalFollowsSelection ==
    ~u_toggle_pending => (u_interval_disabled <=> u_industry = None)

\* The first fetch_industry_data call of the page has returned.
C20_ButtonEnabledReached ==
    /\ Quiescent
    /\ u_events = 0
    /\ u_industry = None
    /\ ~u_btn_disabled

\* ------------------------------------------------------------------------
\* Claims about the batch barrier and the output order
\* ------------------------------------------------------------------------
\* The symbols whose _fetch_one has started
Started == b_running \cup Range(b_finished)

\* C16: a fetch of a symbol of a batch has started only if every fetch of
\* every earlier batch has finished and one inter-batch sleep per earlier batch
\* has been taken; and the sleep that follows a batch is taken only when every
\* fetch of that batch has finished.
C16_BatchBarrier ==
    /\ \A k \in 1..Len(b_batches) :
          (Range(b_batches[k]) \cap Started # {}) =>
              /\ \A j \in 1..(k - 1) : Range(b_batches[j]) \subseteq Range(b_finished)
              /\ b_sleeps >= k - 1
    /\ \A k \in 1..Len(b_batches) :
          b_sleeps >= k => Range(b_batches[k]) \subseteq Range(b_finished)
    /\ b_sleeps <= Len(b_batches)

\* A fetch of the second batch is running, after the first batch and one sleep.
C16_Witness ==
    /\ Len(b_batches) = 2
    /\ Len(b_batches[1]) = 2
    /\ b_running # {}
    /\ b_running \subseteq Range(b_batches[2])
    /\ b_sleeps = 1

\* The batch a symbol was submitted in, and its place in the finishing order
BatchOf(s) == CHOOSE k \in 1..Len(b_batches) : s \in Range(b_batches[k])
FinishPos(s) == CHOOSE k \in 1..Len(b_finished) : b_finished[k] = s
RowSymbol(p) == b_all_data[p].SYMBOL

\* C17 as stated: rows are in batch order, and the rows of one batch are in
\* the order in which their fetches finished.
C17_Original ==
    \A p, q \in 1..Len(b_all_data) :
        p < q =>
            /\ BatchOf(RowSymbol(p)) <= BatchOf(RowSymbol(q))
            /\ BatchOf(RowSymbol(p)) = BatchOf(RowSymbol(q))
                   => FinishPos(RowSymbol(p)) < FinishPos(RowSymbol(q))

\* C17, amended: rows are in batch order; within a batch the rows of the
\* fetches that had finished when as_completed was called come first, in any
\* order, and the rows of the other fetches follow in finishing order.
C17_OutputOrder ==
    \A p, q \in 1..Len(b_all_data) :
        p < q =>
            /\ BatchOf(RowSymbol(p)) <= BatchOf(RowSymbol(q))
            /\ (/\ BatchOf(RowSymbol(p)) = BatchOf(RowSymbol(q))
                /\ RowSymbol(p) \notin b_early)
                   => /\ RowSymbol(q) \notin b_early
                      /\ FinishPos(RowSymbol(p)) < FinishPos(RowSymbol(q))

\* Two fetches of one batch finished before as_completed was called, and the
\* row of the later one comes first.
C17_Witness ==
    /\ BatchDone
    /\ Len(b_all_data) >= 2
    /\ BatchOf(RowSymbol(1)) = BatchOf(RowSymbol(2))
    /\ FinishPos(RowSymbol(1)) > FinishPos(RowSymbol(2))
    /\ {RowSymbol(1), RowSymbol(2)} \subseteq b_early

\* Two fetches of one batch finished while as_completed waited, and their rows
\* are in finishing order, which is not the input order.
C17_LateReached ==
    /\ BatchDone
    /\ Len(b_all_data) >= 2
    /\ BatchOf(RowSymbol(1)) = BatchOf(RowSymbol(2))
    /\ {RowSymbol(1), RowSymbol(2)} \cap b_early = {}
    /\ RowSymbol(1) > RowSymbol(2)

\* Rows of two batches have been collected.
C17_TwoBatchesReached ==
    /\ BatchDone
    /\ Len(b_all_data) >= 2
    /\ BatchOf(RowSymbol(1)) < BatchOf(RowSymbol(Len(b_all_data)))

\* ------------------------------------------------------------------------
\* Claims about the backoff schedule
\* ------------------------------------------------------------------------
\* The calls of time.sleep so far: those that returned, and the one that raised
SleepCalls == Len(r_sleeps) + (IF r_end = "raised" THEN 1 ELSE 0)

\* The sleep after the failed attempt with 0-based index a lasted base_delay * 2^a.
DelaysExact == \A k \in 1..Len(r_sleeps) : r_sleeps[k] = r_base * Pow2(k - 1)

\* With max_retries = 0 the callable is not invoked and None is returned.
ZeroRetries ==
    (r_max = 0 /\ RetryDone) => (r_calls = 0 /\ r_end = "returned" /\ r_value = None)

\* C18 as stated: at most max_retries invocations and at most max_retries - 1
\* calls of sleep; every sleep lasts base_delay * 2^a; no sleep follows the
\* final attempt; with max_retries = 0 no invocation, and None is returned.
C18_Original ==
    /\ r_calls <= r_max
    /\ SleepCalls <= r_max - 1
    /\ DelaysExact
    /\ r_end # "raised"
    /\ RetryDone => SleepCalls < r_calls \/ r_calls = 0
    /\ ZeroRetries

\* C18, amended: at most max_retries invocations; at most max_retries - 1 calls
\* of sleep when max_retries >= 1 and none when max_retries = 0; a sleep that
\* returned lasted base_delay * 2^a >= 0 and was followed by another attempt;
\* a sleep call raises only for base_delay < 0, after the first attempt, and
\* ends the run; no sleep follows the attempt with index max_retries - 1; with
\* max_retries = 0 no invocation, and None is returned.
C18_BackoffSchedule ==
    /\ r_calls <= r_max
    /\ SleepCalls <= (IF r_max >= 1 THEN r_max - 1 ELSE 0)
    /\ DelaysExact
    /\ \A k \in 1..Len(r_sleeps) : r_sleeps[k] >= 0
    /\ r_pc = "loop" => Len(r_sleeps) = r_calls
    /\ (RetryDone /\ r_calls >= 1) => Len(r_sleeps) = r_calls - 1
    /\ r_end = "raised" => (r_base < 0 /\ r_calls = 1 /\ RetryDone)
    /\ ZeroRetries

\* Three attempts with the sleeps 1 and 2 between them, and none after the last
C18_Witness ==
    /\ RetryDone
    /\ r_max = 3
    /\ r_base = 1
    /\ r_calls = 3
    /\ r_sleeps = <<1, 2>>
    /\ r_end = "returned"

\* A call with max_retries = 0 has returned.
C18_ZeroReached == r_max = 0 /\ RetryDone /\ r_calls = 0

\* ------------------------------------------------------------------------
\* Claims about the inter-batch delay and the concurrency bound
\* ------------------------------------------------------------------------
\* C21: one sleep after each batch except the last: while a batch is in
\* progress there has been one sleep per earlier batch; between two batches
\* one per batch so far; and a finished call over n symbols with batch size b
\* has slept ceil(n / b) - 1 times for n > 0 and never for n = 0.
C21_InterBatchSleeps ==
    /\ b_pc \in {"submitted", "collecting"} => b_sleeps = Len(b_batches) - 1
    /\ (b_pc = "loop" /\ b_i < Len(b_symbols)) => b_sleeps = Len(b_batches)
    /\ BatchDone =>
          /\ Len(b_batches) = CeilDiv(Len(b_symbols), b_batch_size)
          /\ b_sleeps = (IF Len(b_symbols) = 0 THEN 0
                         ELSE CeilDiv(Len(b_symbols), b_batch_size) - 1)
          /\ Len(b_symbols) <= b_batch_size => b_sleeps = 0

\* Three symbols in batches of two: two batches and one sleep; the last batch
\* is not followed by one.
C21_Witness ==
    /\ BatchDone
    /\ Len(b_symbols) = 3
    /\ b_batch_size = 2
    /\ Len(b_batches) = 2
    /\ b_sleeps = 1

\* A call over a full single batch has returned without a sleep.
C21_SingleBatchReached ==
    /\ BatchDone
    /\ Len(b_symbols) = 2
    /\ b_batch_size = 2
    /\ b_sleeps = 0

\* C22: the fetches executing at any moment are at most
\* min(workers, length of the current batch) and are fetches of symbols of the
\* current batch.
C22_ConcurrencyBound ==
    /\ Cardinality(b_running) <= b_workers
    /\ Cardinality(b_running) <= Len(b_batch)
    /\ b_running \subseteq Range(b_batch)

\* One worker and a batch of two: one fetch runs while the other is queued.
C22_Witness ==
    /\ b_workers = 1
    /\ Len(b_batch) = 2
    /\ Cardinality(b_running) = 1
    /\ b_queue # <<>>

\* Two fetches of one batch run at the same time.
C22_ParallelReached ==
    /\ Cardinality(b_running) = 2
    /\ b_running = Range(b_batch)

\* ------------------------------------------------------------------------
\* Claims about the sort stores
\* ------------------------------------------------------------------------
Flip(direction) == IF direction = "asc" THEN "desc" ELSE "asc"

\* C25: the direction is "asc" or "desc"; after a click the sort column is the
\* column clicked; a click on the column already sorted flips the direction
\* and a click on another column gives "desc"; a second and a third click on
\* the column of the first give the direction the first click gave.
C25_SortStateMachine ==
    /\ h_direction \in {"asc", "desc"}
    /\ h_trail = <<>> => (h_column = NoColumn /\ h_direction = "asc")
    /\ h_trail # <<>> =>
          /\ h_column = h_trail[Len(h_trail)].click
          /\ h_direction = h_trail[Len(h_trail)].direction
    /\ \A k \in 1..Len(h_trail) : h_trail[k].column = h_trail[k].click
    /\ \A k \in 2..Len(h_trail) :
          h_trail[k].direction =
              (IF h_trail[k].click = h_trail[k - 1].column
               THEN Flip(h_trail[k - 1].direction) ELSE "desc")
    /\ (/\ Len(h_trail) = 3
        /\ h_trail[2].click = h_trail[1].click
        /\ h_trail[3].click = h_trail[1].click)
           => h_trail[3].direction = h_trail[1].direction

\* Three clicks on SYMBOL: "desc", "asc", and "desc" again
C25_Witness ==
    /\ Len(h_trail) = 3
    /\ h_trail[1].click = "SYMBOL"
    /\ h_trail[2].click = "SYMBOL"
    /\ h_trail[3].click = "SYMBOL"
    /\ h_trail[1].direction = "desc"
    /\ h_trail[2].direction = "asc"
    /\ h_direction = "desc"
    /\ h_column = "SYMBOL"

\* A click on another column after the direction had become "asc"
C25_OtherColumnReached ==
    /\ Len(h_trail) >= 2
    /\ h_trail[Len(h_trail) - 1].direction = "asc"
    /\ h_trail[Len(h_trail)].click # h_trail[Len(h_trail) - 1].click
    /\ h_direction = "desc"

\* ------------------------------------------------------------------------
\* Claims about get_historical_comparison
\* ------------------------------------------------------------------------
\* The call has returned a comparison computed from the series.
HistCompared == g_pc = "done" /\ ~g_raises /\ Len(g_closes) >= 2

\* The close N rows before the most recent row, the oldest row when there are
\* not that many
CloseDaysAgo(closes, days) ==
    IF Len(closes) > days THEN closes[Len(closes) - days] ELSE closes[1]

\* C26 as stated: the old price is the close N rows before the most recent
\* row (the oldest row when fewer are available), the change is the current
\* close minus the old price, and the percent change is absent exactly when
\* the old price is 0.
C26_Original ==
    HistCompared =>
        /\ g_result.old_price = Some(CloseDaysAgo(g_closes, g_days))
        /\ g_result.price_change =
               Some(g_closes[Len(g_closes)] - CloseDaysAgo(g_closes, g_days))
        /\ g_result.price_change_pct.isNone <=> CloseDaysAgo(g_closes, g_days) = 0

\* What the call does compute: the old price is the close N - 1 rows before
\* the most recent row, so for N = 1 it is the most recent close itself and
\* the change is 0.
C26_OneRowShort ==
    HistCompared =>
        LET old == IF Len(g_closes) >= g_days
                   THEN g_closes[Len(g_closes) - g_days + 1] ELSE g_closes[1]
        IN  /\ g_result.old_price = Some(old)
            /\ g_result.price_change = Some(g_closes[Len(g_closes)] - old)
            /\ g_result.price_change_pct.isNone <=> old = 0
            /\ g_days = 1 => g_result.price_change = Some(0)

\* Closes 100.00 and 110.00 with N = 1: the call returns 110.00 as the old
\* price and 0 as the change.
C26_FailingInputReached ==
    /\ HistCompared
    /\ g_closes = <<10000, 11000>>
    /\ g_days = 1
    /\ g_result.old_price = Some(11000)
    /\ g_result.price_change = Some(0)

\* ------------------------------------------------------------------------
\* Claims about the enrichment job (src/static_data_fetcher.py)
\* ------------------------------------------------------------------------
\* The job has ended, with an input it could read and a disk it could write.
EnrichEnded == e_input = "ok" /\ e_disk = "ok" /\ e_pc \in {"returned", "raised"}

\* The distinct symbols of the input, in the order of their first occurrence
InputSymbols == Unique([k \in 1..Len(e_tickers) |-> StripPrefix(e_tickers[k])])

\* The file holds one row per distinct input symbol, in first-occurrence
\* order, with the provider's label or "N/A" as its industry.
RowsPersisted ==
    /\ e_saved.written
    /\ Len(e_saved.rows) = Len(InputSymbols)
    /\ \A k \in 1..Len(e_saved.rows) :
          /\ e_saved.rows[k].symbol = InputSymbols[k]
          /\ e_saved.rows[k].industry \in {SymbolLabels[InputSymbols[k]], "N/A"}

\* C23 as stated: for every ticker list and every provider outcome the job
\* ends without an exception having the rows persisted, and the provider is
\* called at most max_retries times per symbol.
C23_Original ==
    /\ EnrichEnded => (e_pc = "returned" /\ RowsPersisted)
    /\ \A k \in 1..3 : e_calls[k] <= DefaultMaxRetries

\* What holds: the same for every ticker list that is not empty; for the
\* empty list the summary raises and nothing is written.
C23_NonEmptyInput ==
    /\ (EnrichEnded /\ e_tickers # <<>>) => (e_pc = "returned" /\ RowsPersisted)
    /\ (EnrichEnded /\ e_tickers = <<>>) => (e_pc = "raised" /\ ~e_saved.written)
    /\ \A k \in 1..3 : e_calls[k] <= DefaultMaxRetries

\* The input has a ticker column and no ticker; the job ends in the KeyError.
C23_EmptyInputReached ==
    /\ e_input = "ok"
    /\ e_tickers = <<>>
    /\ e_pc = "raised"
    /\ ~e_saved.written

\* A symbol given twice whose provider calls all fail keeps its one row, and
\* the symbol after it has its label.
C23_FailureKeptReached ==
    /\ EnrichEnded
    /\ Len(e_tickers) = 3
    /\ Len(e_saved.rows) = 2
    /\ e_saved.rows[1].industry = "N/A"
    /\ e_calls[e_saved.rows[1].symbol] = DefaultMaxRetries
    /\ e_saved.rows[2].industry # "N/A"

\* The call of fetch_industry_for_symbol has returned.
IndustryDone == i_pc = "done"

\* C24 as stated: each sleep after a failed attempt is twice as long as the
\* sleep after the failed attempt before it.
C24_Original ==
    IndustryDone =>
        \A k \in 2..Len(i_result.sleeps) : i_result.sleeps[k] = 2 * i_result.sleeps[k - 1]

\* What holds: the sleep after the failed attempt with 0-based index a lasts
\* a + 1 seconds, there are at most max_retries - 1 sleeps for max_retries >= 1,
\* and at most max_retries calls of the provider.
C24_LinearDelays ==
    IndustryDone =>
        /\ \A k \in 1..Len(i_result.sleeps) : i_result.sleeps[k] = k
        /\ i_result.calls <= i_max
        /\ i_max >= 1 => Len(i_result.sleeps) <= i_max - 1
        /\ i_max = 0 => (i_result.calls = 0 /\ i_result.industry = "N/A")

\* max_retries = 4 and a provider that raises every time: sleeps of 1, 2, 3
C24_FailingInputReached ==
    /\ IndustryDone
    /\ i_max = 4
    /\ i_result.sleeps = <<1, 2, 3>>
    /\ i_result.calls = 4
    /\ i_result.industry = "N/A"

====
